---- MODULE Spec2Model ----
(***************************************************************************)
(* A model of the zencan CANopen node: the SDO server state machine        *)
(* (zencan-node/src/sdo_server.rs), the object dictionary access contract  *)
(* it relies on, the SDO client (zencan-client/src/sdo_client.rs) and the  *)
(* receive/transmit mailbox of the SDO server (sdo_server/sdo_comms.rs).   *)
(***************************************************************************)
EXTENDS Integers, Sequences, FiniteSets, TLC

(***************************************************************************)
(* Bounds of the model                                                     *)
(***************************************************************************)
\* declared size of the read/write string sub-object 0x2002sub0
StrSize == 8
\* an index that is not in the object dictionary
IDX_NONE == 8448
\* a sub index that object 0x2001 does not have
SUB_NONE == 9

(***************************************************************************)
(* Program constants                                                       *)
(***************************************************************************)
\* 0x2002: the string object of the integration tests
IDX_STR == 8194
\* 0x2001: the record object of the integration tests
IDX_REC == 8193
\* data bytes carried by one SDO segment
SEG_BYTES == 7
\* data bytes carried by an expedited transfer
EXP_BYTES == 4

(***************************************************************************)
(* Byte strings                                                            *)
(***************************************************************************)
Zeros(n) == [i \in 1..n |-> 0]

\* data padded with zero bytes to n bytes (the fixed size data field of a frame)
Pad(data, n) == [i \in 1..n |-> IF i <= Len(data) THEN data[i] ELSE 0]

\* old with data copied in at byte offset `offset` (slice.copy_from_slice)
Splice(old, offset, data) ==
    [i \in 1..Len(old) |->
        IF i > offset /\ i <= offset + Len(data) THEN data[i - offset] ELSE old[i]]

Min(a, b) == IF a < b THEN a ELSE b

\* ceiling of a / b (usize::div_ceil)
div_ceil(a, b) == (a + b - 1) \div b

\* Option::None for an object index
None == -1

(***************************************************************************)
(* The object dictionary: sub-objects, their SubInfo and raw access        *)
(***************************************************************************)
Subs == { <<IDX_STR, 0>>, <<IDX_REC, 1>>, <<IDX_REC, 2>> }

\* SubInfo of every sub-object of the dictionary
SubInfoTable(key) ==
    CASE key = <<IDX_STR, 0>> -> [is_str |-> TRUE,  writable |-> TRUE,  size |-> StrSize]
      [] key = <<IDX_REC, 1>> -> [is_str |-> FALSE, writable |-> TRUE,  size |-> 4]
      [] key = <<IDX_REC, 2>> -> [is_str |-> FALSE, writable |-> FALSE, size |-> 4]

Ok(v) == [ok |-> TRUE, val |-> v, code |-> ""]
Err(code) == [ok |-> FALSE, val |-> 0, code |-> code]

find_object(index) == \E key \in Subs : key[1] = index

sub_info(index, sub) ==
    IF <<index, sub>> \in Subs THEN Ok(SubInfoTable(<<index, sub>>))
    ELSE Err("NoSuchSubIndex")

\* ObjectRawAccess::write: strings accept any slice inside the storage,
\* scalars only a whole value at offset 0
obj_write(odv, index, sub, offset, data) ==
    IF <<index, sub>> \notin Subs THEN Err("NoSuchSubIndex")
    ELSE LET key == <<index, sub>>
             info == SubInfoTable(key)
         IN IF info.is_str
            THEN IF offset + Len(data) > info.size
                 THEN Err("DataTypeMismatchLengthHigh")
                 ELSE Ok([odv EXCEPT ![key] = Splice(odv[key], offset, data)])
            ELSE IF offset # 0 THEN Err("UnsupportedAccess")
                 ELSE IF Len(data) < info.size THEN Err("DataTypeMismatchLengthLow")
                 ELSE IF Len(data) > info.size THEN Err("DataTypeMismatchLengthHigh")
                 ELSE Ok([odv EXCEPT ![key] = data])

\* ObjectRawAccess::read of len bytes at offset
obj_read(odv, index, sub, offset, len) ==
    IF <<index, sub>> \notin Subs THEN Err("NoSuchSubIndex")
    ELSE LET key == <<index, sub>>
             info == SubInfoTable(key)
         IN IF offset + len > info.size
            THEN Err("DataTypeMismatchLengthHigh")
            ELSE Ok(SubSeq(odv[key], offset + 1, offset + len))

\* length of the prefix of a stored string before its first zero byte
StrLen(bytes) ==
    IF \E i \in 1..Len(bytes) : bytes[i] = 0
    THEN (CHOOSE i \in 1..Len(bytes) :
              bytes[i] = 0 /\ \A j \in 1..(i - 1) : bytes[j] # 0) - 1
    ELSE Len(bytes)

\* ObjectRawAccess::current_size: logical length of a string, declared
\* size of anything else
current_size(odv, index, sub) ==
    IF <<index, sub>> \notin Subs THEN Err("NoSuchSubIndex")
    ELSE LET key == <<index, sub>>
         IN IF SubInfoTable(key).is_str THEN Ok(StrLen(odv[key]))
            ELSE Ok(SubInfoTable(key).size)

(***************************************************************************)
(* SDO requests and responses (zencan_common::sdo)                         *)
(***************************************************************************)
Req(type) ==
    [type |-> type, index |-> 0, sub |-> 0, n |-> 0, e |-> FALSE, s |-> FALSE,
     t |-> FALSE, c |-> FALSE, data |-> <<>>, size |-> 0, crc |-> 0]

\* SdoRequest::initiate_upload
initiate_upload(index, sub) ==
    [Req("InitiateUpload") EXCEPT !.index = index, !.sub = sub]

\* SdoRequest::expedited_download: the value inline, n unused bytes
expedited_download(index, sub, data) ==
    [Req("InitiateDownload") EXCEPT !.index = index, !.sub = sub, !.e = TRUE,
                                    !.s = (Len(data) > 0),
                                    !.n = IF Len(data) > 0 THEN EXP_BYTES - Len(data) ELSE 0,
                                    !.data = Pad(data, EXP_BYTES)]

\* SdoRequest::initiate_download with Some(size): a segmented download, the
\* size in the data field
initiate_download(index, sub, size) ==
    [Req("InitiateDownload") EXCEPT !.index = index, !.sub = sub, !.s = TRUE,
                                    !.data = <<size % 256, size \div 256, 0, 0>>]

\* SdoRequest::download_segment
download_segment(t, c, data) ==
    [Req("DownloadSegment") EXCEPT !.t = t, !.c = c, !.n = SEG_BYTES - Len(data),
                                   !.data = Pad(data, SEG_BYTES)]

\* SdoRequest::upload_segment_request
upload_segment_request(t) == [Req("ReqUploadSegment") EXCEPT !.t = t]

\* SdoRequest::abort
abort_request(index, sub) ==
    [Req("Abort") EXCEPT !.index = index, !.sub = sub]

NoResp ==
    [type |-> "None", index |-> 0, sub |-> 0, code |-> "", n |-> 0, e |-> FALSE,
     s |-> FALSE, t |-> FALSE, c |-> FALSE, data |-> <<>>, size |-> 0,
     ackseq |-> 0, blksize |-> 0, crc |-> 0]

\* SdoResponse::abort
abort(index, sub, code) ==
    [NoResp EXCEPT !.type = "Abort", !.index = index, !.sub = sub, !.code = code]

\* SdoResponse::expedited_upload: the value inline, n unused bytes; the size
\* indication is dropped for an empty value (n has only two bits)
expedited_upload(index, sub, data) ==
    [NoResp EXCEPT !.type = "ConfirmUpload", !.index = index, !.sub = sub,
                   !.e = TRUE, !.s = (Len(data) > 0),
                   !.n = IF Len(data) > 0 THEN EXP_BYTES - Len(data) ELSE 0,
                   !.data = Pad(data, EXP_BYTES)]

\* SdoResponse::upload_acknowledge: segmented upload with indicated size
upload_acknowledge(index, sub, size) ==
    [NoResp EXCEPT !.type = "ConfirmUpload", !.index = index, !.sub = sub,
                   !.s = TRUE, !.size = size]

\* SdoResponse::download_acknowledge
download_acknowledge(index, sub) ==
    [NoResp EXCEPT !.type = "ConfirmDownload", !.index = index, !.sub = sub]

\* SdoResponse::download_segment_acknowledge
download_segment_acknowledge(t) ==
    [NoResp EXCEPT !.type = "ConfirmDownloadSegment", !.t = t]

\* SdoResponse::upload_segment
upload_segment(t, c, data) ==
    [NoResp EXCEPT !.type = "UploadSegment", !.t = t, !.c = c,
                   !.n = SEG_BYTES - Len(data), !.data = Pad(data, SEG_BYTES)]

(***************************************************************************)
(* SdoServer (zencan-node/src/sdo_server.rs)                               *)
(***************************************************************************)
\* SdoServer::new
SdoServer_new ==
    [toggle_state |-> FALSE, state |-> "Idle", segment_counter |-> 0,
     index |-> 0, sub |-> 0]

\* the value handle_request returns, with the server and dictionary it leaves
Out(srv, odv, resp, updated) ==
    [srv |-> srv, od |-> odv, resp |-> resp, updated |-> updated, panic |-> FALSE]

\* a failed unwrap(): the processing context panics
Panic(srv, odv) ==
    [srv |-> srv, od |-> odv, resp |-> NoResp, updated |-> None, panic |-> TRUE]

\* SdoServer::validate_download_size: "" for Ok(()), else the abort code
validate_download_size(dl_size, subobj) ==
    IF subobj.is_str
    THEN IF dl_size > subobj.size THEN "DataTypeMismatchLengthHigh" ELSE ""
    ELSE IF dl_size < subobj.size THEN "DataTypeMismatchLengthLow"
         ELSE IF dl_size > subobj.size THEN "DataTypeMismatchLengthHigh"
         ELSE ""

\* a download that never zero terminates a short string
never_terminated(len, size) == FALSE

\* a string written shorter than its storage is zero terminated
needs_terminator(len, size) == len < size

\* handle_request, SdoRequest::InitiateUpload
handle_initiate_upload(srv, odv, req) ==
    IF ~find_object(req.index)
    THEN Out(srv, odv, abort(req.index, req.sub, "NoSuchObject"), None)
    ELSE
    LET srv1 == [srv EXCEPT !.toggle_state = FALSE]
        cs == current_size(odv, req.index, req.sub)
    IN  IF ~cs.ok THEN Out(srv1, odv, abort(req.index, req.sub, cs.code), None)
        ELSE IF cs.val <= EXP_BYTES
        THEN LET srv2 == [srv1 EXCEPT !.state = "Idle"]
                 rd == obj_read(odv, req.index, req.sub, 0, cs.val)
             IN  IF ~rd.ok
                 THEN Out(srv2, odv, abort(req.index, req.sub, rd.code), None)
                 ELSE Out(srv2, odv, expedited_upload(req.index, req.sub, rd.val), None)
        ELSE Out([srv1 EXCEPT !.state = "UploadSegment", !.index = req.index,
                              !.sub = req.sub, !.segment_counter = 0],
                 odv, upload_acknowledge(req.index, req.sub, cs.val), None)

\* handle_request, SdoRequest::InitiateDownload with e set
handle_expedited_download(srv, odv, req) ==
    LET srv1 == [srv EXCEPT !.index = req.index, !.sub = req.sub]
        info == sub_info(req.index, req.sub)
        dl_size == EXP_BYTES - req.n
    IN  IF ~find_object(req.index)
        THEN Out(srv1, odv, abort(req.index, req.sub, "NoSuchObject"), None)
        ELSE IF ~info.ok
        THEN Out(srv1, odv, abort(req.index, req.sub, info.code), None)
        ELSE IF ~info.val.writable
        THEN Out(srv1, odv, abort(srv1.index, srv1.sub, "ReadOnly"), None)
        ELSE IF validate_download_size(dl_size, info.val) # ""
        THEN Out([srv1 EXCEPT !.state = "Idle"], odv,
                 abort(srv1.index, srv1.sub, validate_download_size(dl_size, info.val)),
                 None)
        ELSE
        LET w1 == obj_write(odv, req.index, req.sub, 0, SubSeq(req.data, 1, dl_size))
        IN  IF ~w1.ok THEN Out(srv1, odv, abort(req.index, req.sub, w1.code), None)
            ELSE IF needs_terminator(dl_size, info.val.size)
            THEN LET w2 == obj_write(w1.val, req.index, req.sub, dl_size, <<0>>)
                 IN  IF ~w2.ok
                     THEN Out(srv1, w1.val, abort(req.index, req.sub, w2.code), None)
                     ELSE Out(srv1, w2.val, download_acknowledge(req.index, req.sub),
                              req.index)
            ELSE Out(srv1, w1.val, download_acknowledge(req.index, req.sub), req.index)

\* handle_request, SdoRequest::InitiateDownload with e clear
handle_segmented_download(srv, odv, req) ==
    LET srv1 == [srv EXCEPT !.index = req.index, !.sub = req.sub]
        info == sub_info(req.index, req.sub)
        dl_size == EXP_BYTES - req.n
    IN  IF ~find_object(req.index)
        THEN Out(srv1, odv, abort(req.index, req.sub, "NoSuchObject"), None)
        ELSE IF ~info.ok
        THEN Out(srv1, odv, abort(req.index, req.sub, info.code), None)
        ELSE IF req.s /\ validate_download_size(dl_size, info.val) # ""
        THEN Out([srv1 EXCEPT !.state = "Idle"], odv,
                 abort(srv1.index, srv1.sub, validate_download_size(dl_size, info.val)),
                 None)
        ELSE Out([srv1 EXCEPT !.toggle_state = FALSE, !.segment_counter = 0,
                              !.state = "DownloadSegment"],
                 odv, download_acknowledge(req.index, req.sub), None)

\* handle_request, SdoRequest::InitiateDownload
handle_initiate_download(srv, odv, req) ==
    IF req.e THEN handle_expedited_download(srv, odv, req)
    ELSE handle_segmented_download(srv, odv, req)

\* a toggle check that lets every segment through
toggle_unchecked(srv, req) == FALSE

\* the toggle check of a segment request: *t != self.toggle_state
toggle_mismatch(srv, req) == req.t # srv.toggle_state

\* handle_request, SdoRequest::DownloadSegment
handle_download_segment(srv, odv, req) ==
    IF srv.state # "DownloadSegment"
    THEN Out([srv EXCEPT !.state = "Idle"], odv,
             abort(srv.index, srv.sub, "InvalidCommandSpecifier"), None)
    ELSE IF toggle_mismatch(srv, req)
    THEN Out([srv EXCEPT !.state = "Idle"], odv,
             abort(srv.index, srv.sub, "ToggleNotAlternated"), None)
    ELSE IF ~find_object(srv.index) \/ ~sub_info(srv.index, srv.sub).ok
    THEN Panic(srv, odv)
    ELSE
    LET subinfo == sub_info(srv.index, srv.sub).val
        offset == srv.segment_counter * SEG_BYTES
        segment_size == SEG_BYTES - req.n
        write_len == offset + segment_size
    IN  IF write_len > subinfo.size
        THEN Out([srv EXCEPT !.state = "Idle"], odv,
                 abort(srv.index, srv.sub, "DataTypeMismatchLengthHigh"), None)
        ELSE
        LET w1 == obj_write(odv, srv.index, srv.sub, offset,
                            SubSeq(req.data, 1, segment_size))
        IN  IF ~w1.ok THEN Panic(srv, odv)
            ELSE
            LET w2 == IF req.c /\ needs_terminator(write_len, subinfo.size)
                      THEN obj_write(w1.val, srv.index, srv.sub, write_len, <<0>>)
                      ELSE w1
                srv1 == [srv EXCEPT !.toggle_state = ~srv.toggle_state,
                                    !.segment_counter = srv.segment_counter + 1]
            IN  IF ~w2.ok THEN Panic(srv, w1.val)
                ELSE Out(srv1, w2.val,
                         download_segment_acknowledge(~srv1.toggle_state),
                         IF req.c THEN srv.index ELSE None)

\* handle_request, SdoRequest::ReqUploadSegment
handle_upload_segment(srv, odv, req) ==
    IF srv.state # "UploadSegment"
    THEN Out([srv EXCEPT !.state = "Idle"], odv,
             abort(srv.index, srv.sub, "InvalidCommandSpecifier"), None)
    ELSE IF toggle_mismatch(srv, req)
    THEN Out([srv EXCEPT !.state = "Idle"], odv,
             abort(srv.index, srv.sub, "ToggleNotAlternated"), None)
    ELSE IF ~find_object(srv.index) \/ ~current_size(odv, srv.index, srv.sub).ok
    THEN Panic(srv, odv)
    ELSE
    LET cur == current_size(odv, srv.index, srv.sub).val
        read_offset == srv.segment_counter * SEG_BYTES
    IN  \* current_size - read_offset underflows: an overflow panic, or a
        \* wrapped length whose read fails and is unwrapped
        IF cur < read_offset THEN Panic(srv, odv)
        ELSE
        LET read_size == Min(cur - read_offset, SEG_BYTES)
            rd == obj_read(odv, srv.index, srv.sub, read_offset, read_size)
            c == (read_size + read_offset) = cur
            srv1 == [srv EXCEPT !.segment_counter = srv.segment_counter + 1,
                                !.toggle_state = ~srv.toggle_state,
                                !.state = IF c THEN "Idle" ELSE srv.state]
        IN  IF ~rd.ok THEN Panic(srv, odv)
            ELSE Out(srv1, odv, upload_segment(~srv1.toggle_state, c, rd.val), None)

\* handle_request, SdoRequest::Abort
handle_abort(srv, odv, req) ==
    Out([srv EXCEPT !.state = "Idle"], odv, NoResp, None)

\* SdoServer::handle_request
handle_request(srv, odv, req) ==
    CASE req.type = "InitiateUpload" -> handle_initiate_upload(srv, odv, req)
      [] req.type = "InitiateDownload" -> handle_initiate_download(srv, odv, req)
      [] req.type = "DownloadSegment" -> handle_download_segment(srv, odv, req)
      [] req.type = "ReqUploadSegment" -> handle_upload_segment(srv, odv, req)
      [] req.type = "Abort" -> handle_abort(srv, odv, req)

(***************************************************************************)
(* Block transfer requests and responses, and the CRC of a block download  *)
(***************************************************************************)
\* SdoRequest::InitiateBlockDownload with the size indicated
initiate_block_download(index, sub, size) ==
    [Req("InitiateBlockDownload") EXCEPT !.index = index, !.sub = sub,
                                         !.s = TRUE, !.size = size]

\* SdoRequest::EndBlockDownload
end_block_download(n, crc) ==
    [Req("EndBlockDownload") EXCEPT !.n = n, !.crc = crc]

\* SdoRequest::InitiateBlockUpload
initiate_block_upload(index, sub) ==
    [Req("InitiateBlockUpload") EXCEPT !.index = index, !.sub = sub]

\* SdoResponse::ConfirmBlockDownload
confirm_block_download(index, sub, blksize) ==
    [NoResp EXCEPT !.type = "ConfirmBlockDownload", !.index = index,
                   !.sub = sub, !.blksize = blksize]

\* SdoResponse::ConfirmBlock
confirm_block(ackseq, blksize) ==
    [NoResp EXCEPT !.type = "ConfirmBlock", !.ackseq = ackseq,
                   !.blksize = blksize]

\* SdoResponse::ConfirmBlockDownloadEnd
confirm_block_download_end == [NoResp EXCEPT !.type = "ConfirmBlockDownloadEnd"]

\* SdoResponse::ConfirmBlockUpload
confirm_block_upload(index, sub, size) ==
    [NoResp EXCEPT !.type = "ConfirmBlockUpload", !.index = index,
                   !.sub = sub, !.size = size]

\* SdoResponse::BlockUploadEnd
block_upload_end(n, crc) ==
    [NoResp EXCEPT !.type = "BlockUploadEnd", !.n = n, !.crc = crc]

\* bit k of the exclusive or of a and b, at its place
xor_bit(a, b, k) ==
    ((((a \div (2 ^ k)) % 2) + ((b \div (2 ^ k)) % 2)) % 2) * (2 ^ k)

\* bitwise exclusive or of two 16 bit words
xor(a, b) ==
    xor_bit(a, b, 0) + xor_bit(a, b, 1) + xor_bit(a, b, 2) + xor_bit(a, b, 3)
    + xor_bit(a, b, 4) + xor_bit(a, b, 5) + xor_bit(a, b, 6) + xor_bit(a, b, 7)
    + xor_bit(a, b, 8) + xor_bit(a, b, 9) + xor_bit(a, b, 10) + xor_bit(a, b, 11)
    + xor_bit(a, b, 12) + xor_bit(a, b, 13) + xor_bit(a, b, 14) + xor_bit(a, b, 15)

\* the element of a set of one element
TheOne(S) == CHOOSE x \in S : TRUE

\* the CRC-16 register, polynomial 0x1021, after one more byte: the register
\* is byte swapped and the byte folded in, in four exclusive ors
crc_byte(crc, byte) ==
    TheOne({ TheOne({ TheOne({ xor(c3, ((c3 % 256) * 32) % 65536) :
                               c3 \in { xor(c2, (c2 * 4096) % 65536) } }) :
                      c2 \in { xor(c1, (c1 % 256) \div 16) } }) :
             c1 \in { xor((crc \div 256) + ((crc % 256) * 256), byte) } })

\* crc16::State::<XMODEM>::calculate
crc16(data) ==
    LET reg[i \in 0..Len(data)] ==
            IF i = 0 THEN 0
            ELSE TheOne({ crc_byte(crc, data[i]) : crc \in { reg[i - 1] } })
    IN  reg[Len(data)]

(***************************************************************************)
(* SdoComms (zencan-node/src/sdo_server/sdo_comms.rs)                      *)
(***************************************************************************)
\* the block size the server announces for a block download
BlkSize == 2

\* bytes of the shared SDO buffer the model keeps: one block
SDO_BUFFER_SIZE == BlkSize * SEG_BYTES

\* first byte of an abort frame (0x80)
ABORT_BYTE == 128

\* ReceiverState
Normal ==
    [tag |-> "Normal", ackseq |-> 0, last_segment |-> 0, complete |-> FALSE,
     block_size |-> 0, current_segment |-> 0, send_complete |-> FALSE]

BlockReceive == [Normal EXCEPT !.tag = "BlockReceive"]

BlockReceiveCompleted(ackseq, last_segment, complete) ==
    [Normal EXCEPT !.tag = "BlockReceiveCompleted", !.ackseq = ackseq,
                   !.last_segment = last_segment, !.complete = complete]

BlockSend(block_size, current_segment, send_complete) ==
    [Normal EXCEPT !.tag = "BlockSend", !.block_size = block_size,
                   !.current_segment = current_segment,
                   !.send_complete = send_complete]

BlockSendCompleted == [Normal EXCEPT !.tag = "BlockSendCompleted"]

BlockSendAborted == [Normal EXCEPT !.tag = "BlockSendAborted"]

\* Option<SdoRequest>::None
NoReq == Req("None")

\* SdoComms::new: the buffer is in its home slot
SdoComms_new ==
    [request |-> NoReq, response |-> NoResp, state |-> Normal, home |-> TRUE,
     buffer |-> Zeros(SDO_BUFFER_SIZE), last_seqnum |-> 0, blksize |-> 0,
     timer |-> 0]

\* the command byte of a request frame (CiA 301)
command_byte(req) ==
    CASE req.type = "InitiateDownload" ->
             32 + 4 * req.n + (IF req.e THEN 2 ELSE 0) + (IF req.s THEN 1 ELSE 0)
      [] req.type = "DownloadSegment" ->
             (IF req.t THEN 16 ELSE 0) + 2 * req.n + (IF req.c THEN 1 ELSE 0)
      [] req.type = "InitiateUpload" -> 64
      [] req.type = "ReqUploadSegment" -> 96 + (IF req.t THEN 16 ELSE 0)
      [] req.type = "Abort" -> ABORT_BYTE
      [] req.type = "InitiateBlockDownload" -> 198
      [] req.type = "EndBlockDownload" -> 193 + 4 * req.n
      [] req.type = "InitiateBlockUpload" -> 164
      [] req.type = "StartBlockUpload" -> 163
      [] req.type = "ConfirmBlock" -> 162
      [] req.type = "EndBlockUpload" -> 161

\* SdoRequest::to_bytes: the frame of a request, its first byte and what the
\* other seven bytes say
request_frame(req) ==
    [b0 |-> command_byte(req), req |-> req, resp |-> NoResp,
     data |-> Zeros(SEG_BYTES)]

\* SdoResponse::to_bytes: the frame of a response
response_frame(r) ==
    [b0 |-> 0, req |-> NoReq, resp |-> r, data |-> Zeros(SEG_BYTES)]

\* BlockSegment::to_bytes: c in bit 7, seqnum in bits 0..6, seven data bytes
segment_frame(c, seqnum, data) ==
    [b0 |-> (IF c THEN 128 ELSE 0) + seqnum, req |-> NoReq, resp |-> NoResp,
     data |-> Pad(data, SEG_BYTES)]

\* no frame
NoFrame == [b0 |-> 0, req |-> NoReq, resp |-> NoResp, data |-> <<>>]

\* BlockSegment::try_from
segment_of(frame) ==
    [c |-> frame.b0 >= 128, seqnum |-> frame.b0 % 128, data |-> frame.data]

\* SdoRequest::try_from: the request a frame decodes to by its command
\* specifier (the upper three bits), NoReq when it decodes to none
request_of(frame) ==
    IF frame.req # NoReq THEN frame.req
    ELSE IF frame.b0 \div 32 = 4 THEN Req("Abort")
    ELSE IF frame.b0 \div 32 = 0
    THEN [Req("DownloadSegment") EXCEPT !.t = ((frame.b0 \div 16) % 2 = 1),
                                        !.n = (frame.b0 \div 2) % 8,
                                        !.c = (frame.b0 % 2 = 1),
                                        !.data = frame.data]
    ELSE NoReq

\* SdoComms::handle_req outside the segment path of BlockReceive: the
\* SdoComms it leaves
handle_req(c, frame) ==
    LET req == request_of(frame)
    IN  CASE c.state.tag = "Normal" ->
                 IF req # NoReq THEN [c EXCEPT !.request = req, !.timer = 0] ELSE c
          [] c.state.tag = "BlockReceive" ->
                 IF frame.b0 = ABORT_BYTE /\ req # NoReq
                 THEN [c EXCEPT !.request = req, !.state = Normal]
                 ELSE c
          [] c.state.tag = "BlockReceiveCompleted" -> c
          [] c.state.tag = "BlockSend" ->
                 IF frame.b0 = ABORT_BYTE THEN [c EXCEPT !.state = BlockSendAborted]
                 ELSE c
          [] c.state.tag \in {"BlockSendCompleted", "BlockSendAborted"} ->
                 IF req # NoReq THEN [c EXCEPT !.request = req, !.timer = 0] ELSE c

\* SdoComms::handle_req takes the segment path: in BlockReceive, a frame
\* that is no abort and carries a sequence number other than 0
is_segment(c, frame) ==
    /\ c.state.tag = "BlockReceive"
    /\ ~(frame.b0 = ABORT_BYTE /\ request_of(frame) # NoReq)
    /\ segment_of(frame).seqnum # 0

\* SdoComms::handle_req, the critical section of the segment path
receive_segment(c, segment) ==
    LET pos == (segment.seqnum - 1) * SEG_BYTES
        c0 == [c EXCEPT !.timer = 0]
        c1 == IF pos + SEG_BYTES <= Len(c.buffer)
              THEN [c0 EXCEPT !.buffer = Splice(c.buffer, pos, segment.data)]
              ELSE c0
        c2 == IF segment.seqnum = c1.last_seqnum + 1
              THEN [c1 EXCEPT !.last_seqnum = c1.last_seqnum + 1]
              ELSE c1
    IN  IF segment.seqnum = c2.blksize \/ segment.c
        THEN [c2 EXCEPT !.state = BlockReceiveCompleted(c2.last_seqnum,
                                                        segment.seqnum, segment.c)]
        ELSE c2

\* SdoComms::begin_block_download
begin_block_download(c, blksize) ==
    [c EXCEPT !.last_seqnum = 0, !.timer = 0, !.blksize = blksize,
              !.state = BlockReceive]

\* SdoComms::restart_block_download
restart_block_download(c, ackseq) ==
    [c EXCEPT !.last_seqnum = ackseq, !.timer = 0, !.state = BlockReceive]

abort_ignored(c) == c

\* SdoComms::handle_req in BlockSend, the first byte 0x80: the store
abort_block_send(c) == [c EXCEPT !.state = BlockSendAborted]

\* SdoComms::begin_block_upload
begin_block_upload(c, size, send_complete) ==
    [c EXCEPT !.timer = 0, !.state = BlockSend(size, 0, send_complete)]

timer_stopped(c, elapsed_us) == c

\* SdoComms::increment_timer; the times of the model stay far below 2^32
increment_timer(c, elapsed_us) == [c EXCEPT !.timer = @ + elapsed_us]

\* SdoComms::store_response
store_response(c, r) == [c EXCEPT !.response = r]

\* SdoComms::next_transmit_message in BlockSend: the segment it emits
send_segment_frame(c) ==
    LET st == c.state
        total_segments == div_ceil(st.block_size, SEG_BYTES)
        read_idx == st.current_segment * SEG_BYTES
        segment_size == Min(st.block_size - read_idx, SEG_BYTES)
        last == st.current_segment = total_segments - 1
    IN  segment_frame(st.send_complete /\ last, st.current_segment + 1,
                      SubSeq(c.buffer, read_idx + 1, read_idx + segment_size))

\* the BlockSend state never left
send_never_completed(c) ==
    BlockSend(c.state.block_size, c.state.current_segment + 1, c.state.send_complete)

\* SdoComms::next_transmit_message in BlockSend: the state it stores
send_segment_state(c) ==
    LET st == c.state
        total_segments == div_ceil(st.block_size, SEG_BYTES)
    IN  IF st.current_segment = total_segments - 1 THEN BlockSendCompleted
        ELSE BlockSend(st.block_size, st.current_segment + 1, st.send_complete)

(***************************************************************************)
(* SdoServer::process: the requests and completed blocks the processing    *)
(* context takes from SdoComms                                             *)
(***************************************************************************)
\* the block transfer in progress: the size the client indicated, the bytes
\* of the blocks acknowledged so far, and whether the last block has arrived
NoBlock == [size |-> 0, staged |-> <<>>, ended |-> FALSE]

\* what one call of process leaves; updated: an updated index is returned
Processed(srv, odv, c, b) ==
    [srv |-> srv, od |-> odv, comms |-> c, blk |-> b, panic |-> FALSE,
     updated |-> FALSE]

\* process answers with an abort: the server is Idle, the receiver Normal
process_abort(srv, odv, c, index, sub, code) ==
    Processed([srv EXCEPT !.state = "Idle"], odv,
              store_response([c EXCEPT !.state = Normal], abort(index, sub, code)),
              NoBlock)

\* process takes an InitiateBlockDownload
process_initiate_block_download(srv, odv, c, req) ==
    LET info == sub_info(req.index, req.sub)
        code == IF ~find_object(req.index) THEN "NoSuchObject"
                ELSE IF ~info.ok THEN info.code
                ELSE IF ~info.val.writable THEN "ReadOnly"
                ELSE validate_download_size(req.size, info.val)
    IN  IF code # "" THEN process_abort(srv, odv, c, req.index, req.sub, code)
        ELSE Processed([srv EXCEPT !.state = "BlockDownload", !.index = req.index,
                                   !.sub = req.sub],
                       odv,
                       store_response(begin_block_download(c, BlkSize),
                                      confirm_block_download(req.index, req.sub, BlkSize)),
                       [NoBlock EXCEPT !.size = req.size])

\* process finds the receiver in BlockReceiveCompleted and holds the buffer:
\* a block with a gap is asked for again from ackseq + 1, a block without
\* one is taken out of the buffer; more segments than the size indicated
\* has room for abort the transfer
process_block_completed(srv, odv, c, b) ==
    LET st == c.state
        ack == confirm_block(st.ackseq, BlkSize)
        taken == [b EXCEPT !.staged = b.staged \o SubSeq(c.buffer, 1, st.ackseq * SEG_BYTES)]
    IN  IF Len(taken.staged) >= b.size + SEG_BYTES
        THEN process_abort(srv, odv, c, srv.index, srv.sub,
                           "DataTypeMismatchLengthHigh")
        ELSE IF st.ackseq < st.last_segment
        THEN Processed(srv, odv,
                       store_response(restart_block_download(c, st.ackseq), ack), b)
        ELSE IF st.complete
        THEN Processed(srv, odv, store_response([c EXCEPT !.state = Normal], ack),
                       [taken EXCEPT !.ended = TRUE])
        ELSE Processed(srv, odv,
                       store_response(begin_block_download(c, BlkSize), ack), taken)

\* process takes an EndBlockDownload: the CRC is verified and the data
\* written to the sub-object in one write, which completes the download
process_end_block_download(srv, odv, c, b, req) ==
    LET data == SubSeq(b.staged, 1, Len(b.staged) - req.n)
        info == SubInfoTable(<<srv.index, srv.sub>>)
        final == IF needs_terminator(Len(data), info.size) THEN data \o <<0>>
                 ELSE data
        w == obj_write(odv, srv.index, srv.sub, 0, final)
    IN  IF srv.state # "BlockDownload" \/ ~b.ended
        THEN process_abort(srv, odv, c, srv.index, srv.sub, "InvalidCommandSpecifier")
        ELSE IF req.crc # crc16(data)
        THEN process_abort(srv, odv, c, srv.index, srv.sub, "CrcError")
        ELSE IF ~w.ok
        THEN process_abort(srv, odv, c, srv.index, srv.sub, w.code)
        ELSE [Processed([srv EXCEPT !.state = "Idle"], w.val,
                        store_response([c EXCEPT !.state = Normal],
                                       confirm_block_download_end),
                        NoBlock) EXCEPT !.updated = TRUE]

\* process takes an InitiateBlockUpload: the value is copied into the
\* buffer in one borrow
process_initiate_block_upload(srv, odv, c, req) ==
    LET size == current_size(odv, req.index, req.sub)
        r == obj_read(odv, req.index, req.sub, 0, size.val)
    IN  IF ~find_object(req.index)
        THEN process_abort(srv, odv, c, req.index, req.sub, "NoSuchObject")
        ELSE IF ~size.ok
        THEN process_abort(srv, odv, c, req.index, req.sub, size.code)
        ELSE IF ~c.home
        THEN [Processed(srv, odv, c, NoBlock) EXCEPT !.panic = TRUE]
        ELSE Processed([srv EXCEPT !.state = "BlockUpload", !.index = req.index,
                                   !.sub = req.sub],
                       odv,
                       store_response([c EXCEPT !.buffer = Splice(c.buffer, 0, r.val),
                                                !.state = Normal],
                                      confirm_block_upload(req.index, req.sub, size.val)),
                       [NoBlock EXCEPT !.size = size.val])

\* process takes a request of a block upload under way
process_block_upload(srv, odv, c, b, req) ==
    IF srv.state # "BlockUpload"
    THEN process_abort(srv, odv, c, srv.index, srv.sub, "InvalidCommandSpecifier")
    ELSE CASE req.type = "StartBlockUpload" ->
                  Processed(srv, odv, begin_block_upload(c, b.size, TRUE), b)
           [] req.type = "ConfirmBlock" ->
                  Processed(srv, odv,
                            store_response([c EXCEPT !.state = Normal],
                                block_upload_end((SEG_BYTES - (b.size % SEG_BYTES)) % SEG_BYTES,
                                                 crc16(SubSeq(c.buffer, 1, b.size)))),
                            b)
           [] req.type = "EndBlockUpload" ->
                  Processed([srv EXCEPT !.state = "Idle"], odv,
                            [c EXCEPT !.state = Normal], NoBlock)

\* process takes a request that handle_request serves
process_handle_request(srv, odv, c, req) ==
    LET out == handle_request(srv, odv, req)
        c1 == [c EXCEPT !.state = Normal]
    IN  [Processed(out.srv, out.od,
                   IF out.resp = NoResp THEN c1 ELSE store_response(c1, out.resp),
                   NoBlock) EXCEPT !.panic = out.panic,
                                   !.updated = out.updated # None]

\* process with a request taken from SdoComms
process_request(srv, odv, c, b, req) ==
    CASE req.type = "InitiateBlockDownload" ->
             process_initiate_block_download(srv, odv, c, req)
      [] req.type = "EndBlockDownload" ->
             process_end_block_download(srv, odv, c, b, req)
      [] req.type = "InitiateBlockUpload" ->
             process_initiate_block_upload(srv, odv, c, req)
      [] req.type \in {"StartBlockUpload", "ConfirmBlock", "EndBlockUpload"} ->
             process_block_upload(srv, odv, c, b, req)
      [] OTHER -> process_handle_request(srv, odv, c, req)

(***************************************************************************)
(* State                                                                   *)
(***************************************************************************)
VARIABLES
    server,     \* the SdoServer: toggle_state, state, segment_counter, index, sub
    od,         \* stored bytes of every sub-object
    resp,       \* the response to the last request (NoResp: none was sent)
    panicked,   \* the processing context has panicked
    cl,         \* the SdoClient inside download() or upload()
    hist,       \* the frames of the client's current operation, and what it
                \* has written so far
    comms,      \* the SdoComms shared by the receive, transmit and process
                \* contexts
    rxc,        \* the receive context inside SdoComms::handle_req
    prc,        \* the process context inside a block transfer step
    blk,        \* the block transfer the server is carrying out
    wire,       \* the frame on its way to the node
    sent,       \* the frame the transmit context handed to the driver last
    bc,         \* the SdoClient inside block_download()
    object_flag_sync,   \* the ObjectFlagSync of the NodeState
    flags,      \* the two bitsets of an object's event flags
    producer,   \* the application inside set_event_flag
    tick,       \* the Node inside the PDO phase of process
    events,     \* the history of the events raised by the application
    tx_queue,   \* the buffer of the PriorityQueue
    ret,        \* the last call on the queue
    node,       \* the Node: node_id, nmt_state, reassigned_node_id, auto_start,
                \* the heartbeat period and deadline, the time of the last call
    mbox,       \* the NodeMbox: nmt_mbox, sync_flag, lss_receiver, SDO COB-IDs
    rpdos,      \* the receive PDOs of the NodeState
    tpdos,      \* the transmit PDOs of the NodeState
    obs,        \* what the last call on the node did, and what has reached
                \* the node since the last process call
    effects     \* what the last call on the node did: the callbacks it invoked, its
                \* flags and its result; and the automatic starts of the lifetime

node_vars == <<server, od, resp, panicked>>
client_vars == <<cl, hist>>
comms_vars == <<comms, rxc, prc, blk, wire, sent>>
flag_vars == <<object_flag_sync, flags, producer, tick, events>>
queue_vars == <<tx_queue, ret>>
nmt_vars == <<node, mbox, rpdos, tpdos, obs, effects>>
ext_vars == <<flag_vars, queue_vars, nmt_vars>>
vars == <<server, od, resp, panicked, cl, hist, comms, rxc, prc, blk, wire, sent, bc,
          object_flag_sync, flags, producer, tick, events, tx_queue, ret,
          node, mbox, rpdos, tpdos, obs, effects>>

(***************************************************************************)
(* The requests a client can put on the wire                               *)
(***************************************************************************)
Targets == Subs \cup { <<IDX_REC, SUB_NONE>>, <<IDX_NONE, 0>> }

\* the data field of an expedited request
Payload4 == { <<1, 2, 1, 2>> }
\* the data field of a segment
Payload7 == { <<1, 2, 1, 2, 1, 2, 1>> }

\* the numbers of unused bytes (n) the requests of the model carry
ExpeditedN == {0, 2}
SegmentN == {0, 3, 6}

InitiateUploadReqs ==
    { [Req("InitiateUpload") EXCEPT !.index = k[1], !.sub = k[2]] : k \in Targets }

InitiateDownloadReqs ==
    { [Req("InitiateDownload") EXCEPT !.index = x[1][1], !.sub = x[1][2], !.n = x[2],
                                      !.e = x[3], !.s = x[4], !.data = x[5]] :
        x \in Targets \X ExpeditedN \X BOOLEAN \X BOOLEAN \X Payload4 }

DownloadSegmentReqs ==
    { [Req("DownloadSegment") EXCEPT !.t = x[1], !.n = x[2], !.c = x[3], !.data = x[4]] :
        x \in BOOLEAN \X SegmentN \X BOOLEAN \X Payload7 }

ReqUploadSegmentReqs ==
    { [Req("ReqUploadSegment") EXCEPT !.t = t] : t \in BOOLEAN }

AbortReqs == { Req("Abort") }

Requests ==
    InitiateUploadReqs \cup InitiateDownloadReqs \cup DownloadSegmentReqs
        \cup ReqUploadSegmentReqs \cup AbortReqs

(***************************************************************************)
(* Spec: the server handling any sequence of requests                      *)
(***************************************************************************)
InitOd ==
    [key \in Subs |-> Zeros(SubInfoTable(key).size)]

\* the client between two operations
ClientReady ==
    [pc |-> "ready", op |-> "none", index |-> 0, sub |-> 0, data |-> <<>>,
     n |-> 0, toggle |-> FALSE, read_buf |-> <<>>, result |-> "none"]

InitHist ==
    [nreq |-> 0, resps |-> <<>>, segc |-> <<>>, od_before |-> InitOd,
     written |-> [key \in Subs |-> [set |-> FALSE, data |-> <<>>]]]

\* the receive context between two frames; `last` tells of the last frame
\* it handled whether it was an abort, the receiver state it was handled
\* in, and for an abort the response that was queued when it came
RxIdle ==
    [pc |-> "idle", guard |-> "none", segment |-> segment_of(NoFrame),
     last |-> [abort |-> FALSE, from |-> "none", response |-> NoResp]]

\* the processing context between two calls of process
ProcessIdle == [pc |-> "idle", guard |-> "none"]

\* the block download client before its call; `retx` tells of the first
\* segment sent after an acknowledgement of fewer segments than were sent
BlockClientReady ==
    [pc |-> "ready", data |-> <<>>, crc_enabled |-> FALSE, seqnum |-> 0,
     last_block_start |-> 0, segment_num |-> 0, blksize |-> 0, lost |-> 0,
     gap |-> FALSE, retx |-> [made |-> FALSE, ackseq |-> 0, seqnum |-> 0],
     result |-> "none"]

(***************************************************************************)
(* PriorityQueue<N, T>                                                     *)
(***************************************************************************)

QueueSize == 2

\* Option<T>: None, and Some(v)
Nothing == <<>>
Some(v) == <<v>>

PRIO_MASK == 2147483647

\* a u32: bit 31 and the 31 bits below it
U32(b31, low) == [b31 |-> b31, low |-> low]

U32_MAX == U32(1, PRIO_MASK)

\* a < b on u32
u32_less(a, b) == a.b31 < b.b31 \/ (a.b31 = b.b31 /\ a.low < b.low)

\* Prio::EMPTY: 1 << 31, the value uninitialised
Prio_EMPTY == [prio |-> U32(1, 0), value |-> None]

\* Prio::new: prio & 0x7FFFFFFF clears bit 31
Prio_new(prio, value) == [prio |-> U32(0, prio.low), value |-> value]

never_empty(loc) == FALSE

\* Prio::is_empty: self.0 & (1 << 31) != 0
is_empty(loc) == loc.prio.b31 # 0

\* Prio::value
Prio_value(loc) == IF is_empty(loc) THEN None ELSE loc.value

\* PriorityQueue::new
PriorityQueue_new == [i \in 1..QueueSize |-> Prio_EMPTY]

\* PriorityQueue::push: the first empty location takes the item
RECURSIVE push_from(_, _, _, _)
push_from(buffer, i, prio, item) ==
    IF i > Len(buffer) THEN [buffer |-> buffer, ok |-> FALSE, item |-> item]
    ELSE IF is_empty(buffer[i])
         THEN [buffer |-> [buffer EXCEPT ![i] = Prio_new(prio, item)],
               ok |-> TRUE, item |-> None]
         ELSE push_from(buffer, i + 1, prio, item)

push(buffer, prio, item) == push_from(buffer, 1, prio, item)

any_prio(prio, min_prio) == TRUE

\* the comparison of PriorityQueue::pop
lower_prio(prio, min_prio) == u32_less(prio, min_prio)

\* PriorityQueue::pop, the traversal: the index of the lowest priority
RECURSIVE select_from(_, _, _, _)
select_from(buffer, i, min_prio, selected_index) ==
    IF i > Len(buffer) THEN selected_index
    ELSE IF ~is_empty(buffer[i]) /\ lower_prio(buffer[i].prio, min_prio)
         THEN select_from(buffer, i + 1, buffer[i].prio, i)
         ELSE select_from(buffer, i + 1, min_prio, selected_index)

\* PriorityQueue::pop: the selected location is taken
pop(buffer) ==
    LET selected_index == select_from(buffer, 1, U32_MAX, None)
    IN  IF selected_index = None
        THEN [buffer |-> buffer, value |-> Nothing]
        ELSE [buffer |-> [buffer EXCEPT ![selected_index] = Prio_EMPTY],
              value |-> Some(Prio_value(buffer[selected_index]))]

\* the last call on the queue: what it was given, what it returned and the
\* buffer it found
NoCall == [op |-> "none", prio |-> U32(0, 0), item |-> None, ok |-> TRUE,
           value |-> Nothing, before |-> PriorityQueue_new]

(***************************************************************************)
(* Event flags: the initial state                                          *)
(***************************************************************************)

MaxEvents == 3

\* the two sides of a double-buffered bitset
Sides == {0, 1}

ObjectFlagSync_new == [toggle |-> 0, global |-> FALSE]

\* the subs of the flagged object that can be mapped into a TPDO
EventSubs == {1, 2}

\* the subs whose bit is set, on each side
ObjectFlags_new == [s \in Sides |-> {}]

ProducerIdle == [pc |-> "idle", side |-> 0, sub |-> 0, id |-> 0]

TickIdle == [pc |-> "idle", global_trigger |-> FALSE]

\* count: events raised so far; carried[s]: the events the bits of side s
\* stand for; seen[i]: the ticks that reported event i; lost: the events
\* whose bit was cleared before any tick had read it
NoEvents ==
    [count |-> 0,
     carried |-> [s \in Sides |-> {}],
     seen |-> [i \in 1..MaxEvents |-> 0],
     lost |-> {}]

(***************************************************************************)
(* Node, NodeMbox and the PDOs: the state after Node::new                  *)
(***************************************************************************)

\* NodeId::Unconfigured
UNCONFIGURED == 255

\* the node IDs of the model
NodeIds == {1, 2}

NMT_CMD_ID == 0
SYNC_ID == 128
LSS_RESP_ID == 2020
LSS_REQ_ID == 2021
HEARTBEAT_BASE == 1792
SDO_RX_BASE == 1536
SDO_TX_BASE == 1408
TPDO_BASE == 512
RPDO_BASE == 384
PDO_STEP == 256

\* the first transmission type of an event-driven PDO
EVENT_DRIVEN == 254

NumPdos == 2

\* the transmission types the device configuration gives the PDO slots:
\* slot 1 is event-driven, slot 2 transfers on every SYNC
RpdoTypes == <<255, 1>>
TpdoTypes == <<254, 1>>

\* the payload of the RPDO frames on the bus
PdoData == <<1, 2, 1, 2>>

\* Pdo::new
Pdo_new ==
    [cob_id |-> 0, valid |-> FALSE, transmission_type |-> 0, sync_counter |-> 0,
     buffered_value |-> Nothing]

\* Pdo::init_defaults: the communication parameters of slot k return to
\* the defaults of the device configuration; the COB-ID follows the node ID
init_defaults(pdo, base, types, k, node_id) ==
    [pdo EXCEPT !.cob_id = base + PDO_STEP * (k - 1) + node_id,
                !.valid = TRUE,
                !.transmission_type = types[k]]

\* Node::new, which ends in reset_app; store_flag and store_supported are
\* the StorageContext, no store_objects callback being registered
Node_new(node_id, auto_start) ==
    [node_id |-> node_id, nmt_state |-> "Bootup", reassigned_node_id |-> Nothing,
     auto_start |-> auto_start, heartbeat_period_ms |-> 0,
     next_heartbeat_time_us |-> 0, last_process_time_us |-> 0,
     store_flag |-> FALSE, store_supported |-> FALSE, store_objects |-> FALSE]

\* Node::new, the storage command: supported when the application provides
\* a store_objects callback (cb: callbacks.store_objects.is_some())
with_store_objects(n, cb) ==
    [n EXCEPT !.store_objects = cb, !.store_supported = IF cb THEN TRUE ELSE @]

\* a call that has done nothing yet. callbacks: the callbacks invoked, in
\* order; transmit_flag, update_flag: the flags of Node::process; accepted:
\* the transmit queue took a frame; buffered: a TPDO buffer was filled;
\* notified: the transmit-notify callback was invoked; heartbeats: the calls
\* of send_heartbeat that made a frame; resting: the call found the node in
\* PreOperational, Operational or Stopped with no deferred node ID;
\* first_configured: no process call before this one ran with a configured
\* node ID, and this one did. Over the lifetime of the node: auto_object,
\* the auto-start object read at construction; auto_starts, the automatic
\* transitions to Operational (capped at 2); had_configured, a process call
\* has run with a configured node ID; hb_last, the time of the last periodic
\* heartbeat the queue took and the elapsed time of the call that made it.
\* elapsed: the elapsed time process computed; hb_gap: the time since
\* hb_last, and the elapsed time noted there, when this call made the next
\* periodic heartbeat; timed_out: the state of the SDO server the call gave
\* up after a timeout; quiet_us, over the lifetime: the elapsed time of the
\* process calls since an SDO frame was stored or the SDO server acted;
\* saves, over the lifetime: the writes to the storage command object that
\* succeeded since the last process call (capped at MaxSaves); saved: the
\* value of saves this process call found
NoEffects ==
    [callbacks |-> <<>>, transmit_flag |-> FALSE, update_flag |-> FALSE,
     accepted |-> FALSE, buffered |-> FALSE, notified |-> FALSE, heartbeats |-> 0,
     auto_started |-> FALSE, resting |-> FALSE, first_configured |-> FALSE,
     auto_object |-> FALSE, auto_starts |-> 0, had_configured |-> FALSE,
     elapsed |-> 0, hb_gap |-> Nothing, hb_last |-> Nothing,
     timed_out |-> "", quiet_us |-> 0, saves |-> 0, saved |-> 0]

\* the record a new call starts from: what belongs to the lifetime is kept
Carry(e) ==
    [NoEffects EXCEPT !.auto_object = e.auto_object, !.auto_starts = e.auto_starts,
                      !.had_configured = e.had_configured, !.hb_last = e.hb_last,
                      !.quiet_us = e.quiet_us, !.saves = e.saves]

\* Callbacks: the callback is invoked
invoke(w, cb) == [w EXCEPT !.call.callbacks = Append(@, cb)]

\* NodeMbox::new
NodeMbox_new ==
    [nmt_mbox |-> Nothing, sync_flag |-> FALSE, lss_receiver |-> Nothing,
     sdo_rx_cob_id |-> Nothing, sdo_tx_cob_id |-> Nothing]

\* a call on the node that the observation does not tell of
NoLast ==
    [op |-> "none", ok |-> TRUE, msg |-> Nothing, consumed |-> FALSE,
     operational |-> FALSE, sync |-> FALSE, nmt_acted |-> Nothing,
     nmt_stored |-> [last |-> <<>>, earlier |-> FALSE],
     emitted |-> {}, eligible |-> {}, had_event |-> {},
     applied |-> {}, synced |-> {}, invalid |-> {}, waiting |-> {},
     expected |-> {}, sub |-> 0, written |-> <<>>, code |-> "",
     offset |-> 0, buf_len |-> 0, read |-> <<>>]

\* the NMT commands stored since the last process call: the last one, and
\* whether another command was stored before it
NoneStored == [last |-> Nothing, earlier |-> FALSE]

\* last: the last call; nmt_stored: the NMT commands stored since the last
\* process call; pending: the TPDO slots with an event on a mapped sub that
\* no Operational process call has evaluated
NoObs == [last |-> NoLast, nmt_stored |-> NoneStored, pending |-> {}]

\* the state of Node and PDOs after Node::new(node_id, ..)
InitNode(n) ==
    /\ node = n
    /\ effects = [NoEffects EXCEPT !.callbacks = <<"reset_app">>,
                                   !.auto_object = n.auto_start]
    /\ rpdos = [k \in 1..NumPdos |->
                   init_defaults(Pdo_new, RPDO_BASE, RpdoTypes, k, n.node_id)]
    /\ tpdos = [k \in 1..NumPdos |->
                   init_defaults(Pdo_new, TPDO_BASE, TpdoTypes, k, n.node_id)]

InitBase ==
    /\ mbox = NodeMbox_new
    /\ obs = NoObs

\* the state after construction of the node n
InitOf(n) ==
    /\ server = SdoServer_new
    /\ od = InitOd
    /\ resp = NoResp
    /\ panicked = FALSE
    /\ cl = ClientReady
    /\ hist = InitHist
    /\ comms = SdoComms_new
    /\ rxc = RxIdle
    /\ prc = ProcessIdle
    /\ blk = NoBlock
    /\ wire = NoFrame
    /\ sent = NoFrame
    /\ bc = BlockClientReady
    /\ object_flag_sync = ObjectFlagSync_new
    /\ flags = ObjectFlags_new
    /\ producer = ProducerIdle
    /\ tick = TickIdle
    /\ events = NoEvents
    /\ tx_queue = PriorityQueue_new
    /\ ret = NoCall
    /\ InitBase
    /\ InitNode(n)

\* the state after construction, the node made with Node::new(node_id, ..)
\* over a dictionary whose auto-start object reads auto_start
InitWith(node_id, auto_start) == InitOf(Node_new(node_id, auto_start))

Init == InitWith(1, FALSE)

\* handle_request has returned out: the server, the dictionary and the
\* response it leaves
Served(out) ==
    /\ server' = out.srv
    /\ od' = out.od
    /\ resp' = out.resp
    /\ panicked' = out.panic

\* one call of handle_request
Handle(req) ==
    /\ Served(handle_request(server, od, req))
    /\ UNCHANGED <<client_vars, comms_vars, bc, ext_vars>>

InitiateUpload ==
    /\ ~panicked
    /\ \E req \in InitiateUploadReqs : Handle(req)

InitiateDownload ==
    /\ ~panicked
    /\ \E req \in InitiateDownloadReqs : Handle(req)

DownloadSegment ==
    /\ ~panicked
    /\ \E req \in DownloadSegmentReqs : Handle(req)

ReqUploadSegment ==
    /\ ~panicked
    /\ \E req \in ReqUploadSegmentReqs : Handle(req)

Abort ==
    /\ ~panicked
    /\ \E req \in AbortReqs : Handle(req)

Next ==
    \/ InitiateUpload
    \/ InitiateDownload
    \/ DownloadSegment
    \/ ReqUploadSegment
    \/ Abort

Spec == Init /\ [][Next]_vars

(***************************************************************************)
(* Claims about the server handling arbitrary requests (Spec)              *)
(***************************************************************************)
SegmentStates == {"DownloadSegment", "UploadSegment"}

\* the existing sub-objects that are not writable
ReadOnlySubs == { key \in Subs : ~SubInfoTable(key).writable }

\* C1: whenever the server answers a request with an Abort response, the
\* server state immediately afterwards is Idle.
C1_AbortLeavesIdle ==
    resp.type = "Abort" => server.state = "Idle"

\* C2: no InitiateDownload, expedited or segmented, addressed to an
\* existing non-writable sub-object is confirmed (it is answered with
\* Abort(ReadOnly) instead), the server is never in DownloadSegment for such
\* a sub-object, and the stored value of a non-writable sub-object is never
\* modified by any request.
C2_ReadOnlyDownloadRejected ==
    /\ resp.type = "ConfirmDownload" => <<resp.index, resp.sub>> \notin ReadOnlySubs
    /\ server.state = "DownloadSegment"
          => <<server.index, server.sub>> \notin ReadOnlySubs
    /\ \A key \in ReadOnlySubs : od[key] = InitOd[key]

\* C4: in a segment state the expected toggle is false before the first
\* segment and is inverted by each accepted segment; a segment request
\* whose toggle differs from the expected one is answered with
\* Abort(ToggleNotAlternated), leaves the dictionary untouched, carries no
\* data and leaves the server Idle.
C4_ToggleChecked ==
    /\ (server.state \in SegmentStates /\ server.segment_counter = 0)
          => server.toggle_state = FALSE
    /\ \A r \in DownloadSegmentReqs \cup ReqUploadSegmentReqs :
          LET out == handle_request(server, od, r)
              st == IF r.type = "DownloadSegment" THEN "DownloadSegment"
                    ELSE "UploadSegment"
          IN  server.state = st =>
                IF r.t # server.toggle_state
                THEN /\ out.resp = abort(server.index, server.sub, "ToggleNotAlternated")
                     /\ out.od = od
                     /\ out.srv.state = "Idle"
                     /\ ~out.panic
                ELSE out.resp.type \in {"ConfirmDownloadSegment", "UploadSegment"}
                        => /\ out.srv.toggle_state = ~server.toggle_state
                           /\ out.srv.segment_counter = server.segment_counter + 1
                           /\ out.resp.t = r.t

\* a toggle mismatch on the second segment of a transfer has been rejected
C4_Witness ==
    /\ resp = abort(server.index, server.sub, "ToggleNotAlternated")
    /\ server.state = "Idle"
    /\ server.segment_counter = 1
    /\ server.toggle_state = TRUE

(***************************************************************************)
(* SpecClient: an SdoClient running download() and upload() against the    *)
(* server.  The client sends a request and waits for its response, so one  *)
(* exchange (request, handle_request, response) is one step.               *)
(***************************************************************************)
\* the byte string 1, 2, .. len (no zero byte)
Bytes(len) == [i \in 1..len |-> i]

\* the lengths of the byte strings the client downloads: empty, expedited,
\* one segment, two segments, and one byte more than the string can hold
ClientLens(key) ==
    IF SubInfoTable(key).is_str THEN {0, 2, 5, SEG_BYTES, StrSize, StrSize + 1}
    ELSE {2, EXP_BYTES, 5}

ClientData(key) == { Bytes(len) : len \in ClientLens(key) }

\* match_response!: the error a response other than the expected one gives
response_error(r) == IF r.type = "Abort" THEN "ServerAbort" ELSE "UnexpectedResponse"

\* the client's operation has returned
finish(c, result) == [c EXCEPT !.pc = "ready", !.result = result]

\* SdoClient::download, up to the response to the first request
ClientDownload(key, data) ==
    /\ ~panicked
    /\ cl.pc = "ready"
    /\ LET expedited == Len(data) <= EXP_BYTES
           req == IF expedited THEN expedited_download(key[1], key[2], data)
                  ELSE initiate_download(key[1], key[2], Len(data))
           out == handle_request(server, od, req)
           c0 == [ClientReady EXCEPT !.op = "download", !.index = key[1],
                                     !.sub = key[2], !.data = data]
           done == out.resp.type = "ConfirmDownload" /\ expedited
       IN  /\ Served(out)
           /\ cl' = IF out.resp.type # "ConfirmDownload"
                    THEN finish(c0, response_error(out.resp))
                    ELSE IF expedited THEN finish(c0, "Ok")
                    ELSE [c0 EXCEPT !.pc = "download_segments"]
           /\ hist' = [nreq |-> 1, resps |-> <<out.resp>>, segc |-> <<>>,
                       od_before |-> od,
                       written |-> [hist.written EXCEPT
                                      ![key] = [set |-> done,
                                                data |-> IF done THEN data ELSE <<>>]]]
    /\ UNCHANGED <<comms_vars, bc, ext_vars>>

\* SdoClient::download, one pass of the segment loop
ClientDownloadSegment ==
    /\ ~panicked
    /\ cl.pc = "download_segments"
    /\ LET total_segments == div_ceil(Len(cl.data), SEG_BYTES)
           last_segment == cl.n = total_segments - 1
           segment_size == Min(Len(cl.data) - cl.n * SEG_BYTES, SEG_BYTES)
           req == download_segment(cl.toggle, last_segment,
                      SubSeq(cl.data, cl.n * SEG_BYTES + 1, cl.n * SEG_BYTES + segment_size))
           out == handle_request(server, od, req)
           key == <<cl.index, cl.sub>>
           mismatch == out.resp.type = "ConfirmDownloadSegment" /\ out.resp.t # cl.toggle
           \* on a wrong toggle the client sends an abort before it returns
           out2 == IF mismatch
                   THEN handle_request(out.srv, out.od, abort_request(cl.index, cl.sub))
                   ELSE out
           done == out.resp.type = "ConfirmDownloadSegment" /\ ~mismatch /\ last_segment
       IN  /\ Served([out2 EXCEPT !.resp = out.resp])
           /\ cl' = IF out.resp.type # "ConfirmDownloadSegment"
                    THEN finish(cl, response_error(out.resp))
                    ELSE IF mismatch THEN finish(cl, "ToggleNotAlternated")
                    ELSE IF last_segment
                    THEN finish([cl EXCEPT !.toggle = ~cl.toggle, !.n = cl.n + 1], "Ok")
                    ELSE [cl EXCEPT !.toggle = ~cl.toggle, !.n = cl.n + 1]
           /\ hist' = [hist EXCEPT
                         !.nreq = hist.nreq + (IF mismatch THEN 2 ELSE 1),
                         !.resps = Append(hist.resps, out.resp),
                         !.segc = Append(hist.segc, last_segment),
                         !.written[key] = IF done THEN [set |-> TRUE, data |-> cl.data]
                                          ELSE hist.written[key]]
    /\ UNCHANGED <<comms_vars, bc, ext_vars>>

\* SdoClient::upload, up to the response to the first request
ClientUpload(key) ==
    /\ ~panicked
    /\ cl.pc = "ready"
    /\ LET out == handle_request(server, od, initiate_upload(key[1], key[2]))
           r == out.resp
           c0 == [ClientReady EXCEPT !.op = "upload", !.index = key[1], !.sub = key[2]]
           len == IF r.s THEN EXP_BYTES - r.n ELSE 0
       IN  /\ Served(out)
           /\ cl' = IF r.type # "ConfirmUpload" THEN finish(c0, response_error(r))
                    ELSE IF r.e
                    THEN finish([c0 EXCEPT !.read_buf = SubSeq(r.data, 1, len)], "Ok")
                    ELSE [c0 EXCEPT !.pc = "upload_segments"]
           /\ hist' = [hist EXCEPT !.nreq = 1, !.resps = <<r>>, !.segc = <<>>,
                                   !.od_before = od]
    /\ UNCHANGED <<comms_vars, bc, ext_vars>>

\* SdoClient::upload, one pass of the segment loop
ClientUploadSegment ==
    /\ ~panicked
    /\ cl.pc = "upload_segments"
    /\ LET out == handle_request(server, od, upload_segment_request(cl.toggle))
           r == out.resp
           mismatch == r.type = "UploadSegment" /\ r.t # cl.toggle
           out2 == IF mismatch
                   THEN handle_request(out.srv, out.od, abort_request(cl.index, cl.sub))
                   ELSE out
           c1 == [cl EXCEPT !.read_buf = cl.read_buf \o SubSeq(r.data, 1, SEG_BYTES - r.n)]
       IN  /\ Served([out2 EXCEPT !.resp = r])
           /\ cl' = IF r.type # "UploadSegment" THEN finish(cl, response_error(r))
                    ELSE IF mismatch THEN finish(cl, "ToggleNotAlternated")
                    ELSE IF r.c THEN finish(c1, "Ok")
                    ELSE [c1 EXCEPT !.toggle = ~cl.toggle, !.n = cl.n + 1]
           /\ hist' = [hist EXCEPT
                         !.nreq = hist.nreq + (IF mismatch THEN 2 ELSE 1),
                         !.resps = Append(hist.resps, r),
                         !.segc = Append(hist.segc, r.c)]
    /\ UNCHANGED <<comms_vars, bc, ext_vars>>

ClientDownloadAny ==
    \E key \in Subs : \E data \in ClientData(key) : ClientDownload(key, data)
ClientUploadAny == \E key \in Subs : ClientUpload(key)

NextClient ==
    \/ ClientDownloadAny
    \/ ClientDownloadSegment
    \/ ClientUploadAny
    \/ ClientUploadSegment

SpecClient == Init /\ [][NextClient]_vars

(***************************************************************************)
(* Claims about client operations (SpecClient)                             *)
(***************************************************************************)
\* the client's operation has returned
OpDone == cl.pc = "ready" /\ cl.op # "none"

\* the sub-object the client's operation addresses
OpKey == <<cl.index, cl.sub>>

LastResp == hist.resps[Len(hist.resps)]

\* C3: a download of more bytes than the declared size of the sub-object
\* ends with Abort(DataTypeMismatchLengthHigh), and the stored bytes of the
\* sub-object are then those stored when the download was initiated.
C3_OversizeDownloadLeavesValue ==
    (OpDone /\ cl.op = "download" /\ Len(cl.data) > SubInfoTable(OpKey).size) =>
        /\ LastResp = abort(cl.index, cl.sub, "DataTypeMismatchLengthHigh")
        /\ od[OpKey] = hist.od_before[OpKey]

\* the number of bytes a completed operation transferred
TransferSize == IF cl.op = "download" THEN Len(cl.data) ELSE Len(cl.read_buf)

\* C5: a completed segmented transfer of S > 4 bytes drew exactly
\* 1 + ceil(S/7) responses from the server, the segment responses carry the
\* toggles 0, 1, 0, .., only the last segment has the completion bit, and the
\* server is Idle after the last segment.
C5_SegmentedTransferShape ==
    (OpDone /\ cl.result = "Ok" /\ TransferSize > EXP_BYTES) =>
        /\ Len(hist.resps) = 1 + div_ceil(TransferSize, SEG_BYTES)
        /\ Len(hist.segc) = Len(hist.resps) - 1
        /\ \A i \in 1..Len(hist.segc) :
              /\ hist.resps[i + 1].t = (i % 2 = 0)
              /\ hist.segc[i] = (i = Len(hist.segc))
        /\ server.state = "Idle"

\* C6: a completed upload of a value of at most 4 bytes, or download of at
\* most 4 bytes, took one request and one response, the upload response is
\* expedited and carries exactly the current_size bytes of the value, and
\* the server is Idle afterwards.
C6_ExpeditedExchange ==
    (OpDone /\ cl.result = "Ok" /\ TransferSize <= EXP_BYTES) =>
        /\ hist.nreq = 1
        /\ Len(hist.resps) = 1
        /\ cl.op = "upload" =>
              /\ hist.resps[1].e
              /\ Len(cl.read_buf) = current_size(od, cl.index, cl.sub).val
              /\ cl.read_buf = SubSeq(od[OpKey], 1, Len(cl.read_buf))
        /\ server.state = "Idle"

\* the byte strings a sub-object accepts
Permitted(key, data) ==
    IF SubInfoTable(key).is_str THEN Len(data) <= SubInfoTable(key).size
    ELSE Len(data) = SubInfoTable(key).size

\* C7: a download of a permitted byte string to a writable sub-object
\* succeeds, and an upload of a sub-object after a successful download of d
\* succeeds and returns exactly d.
C7_UploadReturnsDownloaded ==
    /\ (OpDone /\ cl.op = "download" /\ SubInfoTable(OpKey).writable
            /\ Permitted(OpKey, cl.data)) => cl.result = "Ok"
    /\ (OpDone /\ cl.op = "upload" /\ hist.written[OpKey].set) =>
          /\ cl.result = "Ok"
          /\ cl.read_buf = hist.written[OpKey].data

\* the upload of a two byte string written over a string that filled the
\* storage has returned
C7_Witness ==
    /\ OpDone /\ cl.op = "upload" /\ cl.result = "Ok"
    /\ OpKey = <<IDX_STR, 0>>
    /\ hist.written[OpKey].set
    /\ cl.read_buf = Bytes(2)
    /\ od[OpKey][StrSize] # 0

(***************************************************************************)
(* The receive, transmit and processing contexts on one SdoComms           *)
(***************************************************************************)
\* the first byte of the frame is that of an abort
is_abort(frame) == frame.b0 = ABORT_BYTE

\* SdoComms::borrow_buffer: the guard holds what the home slot held
borrow_buffer(c) == IF c.home THEN "held" ELSE "empty"

\* what the receive context notes of the frame it handled
Handled(frame, before) ==
    [abort |-> is_abort(frame), from |-> before.state.tag,
     response |-> IF is_abort(frame) THEN before.response ELSE NoResp]

\* SdoComms::handle_req with a frame: it runs to its return, or on the
\* segment path up to the critical section, the buffer borrowed
Receive(frame) ==
    /\ IF is_segment(comms, frame)
       THEN /\ comms' = [comms EXCEPT !.home = FALSE]
            /\ rxc' = [rxc EXCEPT !.pc = "critical",
                                  !.guard = borrow_buffer(comms),
                                  !.segment = segment_of(frame),
                                  !.last = Handled(frame, comms)]
       ELSE /\ comms' = handle_req(comms, frame)
            /\ rxc' = [rxc EXCEPT !.last = Handled(frame, comms)]
    /\ UNCHANGED <<node_vars, client_vars, prc, blk, sent, bc, ext_vars>>

\* NodeMbox::store_message with the frame the client has sent on the SDO
\* request COB-ID
RxReceive ==
    /\ ~panicked
    /\ rxc.pc = "idle"
    /\ wire # NoFrame
    /\ wire' = NoFrame
    /\ Receive(wire)

\* SdoComms::handle_req, the critical section of the segment path; a guard
\* without the buffer panics when it is dereferenced
RxCritical ==
    /\ ~panicked
    /\ rxc.pc = "critical"
    /\ IF rxc.guard = "empty"
       THEN /\ panicked' = TRUE
            /\ UNCHANGED <<comms, rxc>>
       ELSE /\ comms' = receive_segment(comms, rxc.segment)
            /\ rxc' = [rxc EXCEPT !.pc = "drop"]
            /\ UNCHANGED panicked
    /\ UNCHANGED <<server, od, resp, client_vars, prc, blk, wire, sent, bc, ext_vars>>

\* SdoComms::handle_req returns from the segment path: the guard is dropped
\* and the buffer is back in its home slot
RxDrop ==
    /\ ~panicked
    /\ rxc.pc = "drop"
    /\ comms' = [comms EXCEPT !.home = TRUE]
    /\ rxc' = [rxc EXCEPT !.pc = "idle", !.guard = "none"]
    /\ UNCHANGED <<node_vars, client_vars, prc, blk, wire, sent, bc, ext_vars>>

\* SdoComms::next_transmit_message with a response queued
TxResponse ==
    /\ ~panicked
    /\ comms.response # NoResp
    /\ sent' = response_frame(comms.response)
    /\ comms' = [comms EXCEPT !.response = NoResp]
    /\ UNCHANGED <<node_vars, client_vars, rxc, prc, blk, wire, bc, ext_vars>>

\* SdoComms::next_transmit_message in BlockSend: one segment out of the
\* buffer, borrowed inside the critical section
TxSegment ==
    /\ ~panicked
    /\ comms.response = NoResp
    /\ comms.state.tag = "BlockSend"
    /\ IF borrow_buffer(comms) = "empty"
       THEN /\ panicked' = TRUE
            /\ UNCHANGED <<comms, sent>>
       ELSE /\ sent' = send_segment_frame(comms)
            /\ comms' = [comms EXCEPT !.state = send_segment_state(comms)]
            /\ UNCHANGED panicked
    /\ UNCHANGED <<server, od, resp, client_vars, rxc, prc, blk, wire, bc, ext_vars>>

\* process has returned out
ProcessedTo(out) ==
    /\ server' = out.srv
    /\ od' = out.od
    /\ comms' = out.comms
    /\ blk' = out.blk
    /\ panicked' = out.panic

\* SdoServer::process with a request in SdoComms
ProcessRequest ==
    /\ ~panicked
    /\ prc.pc = "idle"
    /\ comms.request # NoReq
    /\ comms.state.tag \in {"Normal", "BlockSendCompleted"}
    /\ ProcessedTo(process_request(server, od, [comms EXCEPT !.request = NoReq],
                                   blk, comms.request))
    /\ UNCHANGED <<resp, client_vars, rxc, prc, wire, sent, bc, ext_vars>>

\* SdoServer::process finds the block upload aborted
ProcessAborted ==
    /\ ~panicked
    /\ prc.pc = "idle"
    /\ comms.state.tag = "BlockSendAborted"
    /\ ProcessedTo(Processed([server EXCEPT !.state = "Idle"], od,
                             [comms EXCEPT !.state = Normal], NoBlock))
    /\ UNCHANGED <<resp, client_vars, rxc, prc, wire, sent, bc, ext_vars>>

\* SdoServer::process finds a block received and borrows the buffer
ProcessBorrow ==
    /\ ~panicked
    /\ prc.pc = "idle"
    /\ comms.state.tag = "BlockReceiveCompleted"
    /\ prc' = [prc EXCEPT !.pc = "completing", !.guard = borrow_buffer(comms)]
    /\ comms' = [comms EXCEPT !.home = FALSE]
    /\ UNCHANGED <<node_vars, client_vars, rxc, blk, wire, sent, bc, ext_vars>>

\* SdoServer::process, the buffer borrowed: the block is acknowledged and
\* the guard dropped; a guard without the buffer panics
ProcessCompleted ==
    /\ ~panicked
    /\ prc.pc = "completing"
    /\ IF prc.guard = "empty"
       THEN /\ panicked' = TRUE
            /\ UNCHANGED <<server, od, comms, blk, prc>>
       ELSE /\ ProcessedTo(LET out == process_block_completed(server, od, comms, blk)
                           IN  [out EXCEPT !.comms.home = TRUE])
            /\ prc' = ProcessIdle
    /\ UNCHANGED <<resp, client_vars, rxc, wire, sent, bc, ext_vars>>

(***************************************************************************)
(* SpecComms: any sequence of frames arriving on the SDO request COB-ID,   *)
(* with the three contexts interleaved                                     *)
(***************************************************************************)
\* the segments of a block download of the whole string
SegmentData(data, k) ==
    SubSeq(data, k * SEG_BYTES + 1, Min(Len(data), (k + 1) * SEG_BYTES))

\* the frames the bus delivers
WireFrames ==
    { request_frame(r) :
        r \in { Req("Abort"),
                initiate_block_download(IDX_STR, 0, StrSize),
                end_block_download((SEG_BYTES - (StrSize % SEG_BYTES)) % SEG_BYTES,
                                   crc16(Bytes(StrSize))),
                initiate_block_upload(IDX_REC, 1),
                Req("StartBlockUpload"),
                Req("ConfirmBlock") } }
    \cup { segment_frame(c, seqnum, SegmentData(Bytes(StrSize), seqnum - 1)) :
             c \in BOOLEAN, seqnum \in 1..BlkSize }

\* NodeMbox::store_message with any frame of the SDO request COB-ID
RxFrame ==
    /\ ~panicked
    /\ rxc.pc = "idle"
    /\ wire = NoFrame
    /\ UNCHANGED wire
    /\ \E frame \in WireFrames : Receive(frame)

NextComms ==
    \/ RxFrame
    \/ RxCritical
    \/ RxDrop
    \/ TxResponse
    \/ TxSegment
    \/ ProcessRequest
    \/ ProcessAborted
    \/ ProcessBorrow
    \/ ProcessCompleted

SpecComms == Init /\ [][NextComms]_vars

(***************************************************************************)
(* Claims about the three contexts (SpecComms)                             *)
(***************************************************************************)
\* the last frame the node received was an Abort, and neither the receive
\* nor the processing context has anything left to do for it
AbortSettled ==
    /\ rxc.last.abort
    /\ rxc.pc = "idle"
    /\ prc.pc = "idle"
    /\ comms.request = NoReq
    /\ comms.state.tag \notin {"BlockReceiveCompleted", "BlockSendAborted"}

\* C8: an Abort frame received in any state of the server and the receiver
\* leaves, once the node has settled, the server Idle and the receiver
\* Normal, and no response has been queued since the frame came.
C8_AbortResetsAnyState ==
    AbortSettled =>
        /\ server.state = "Idle"
        /\ comms.state = Normal
        /\ comms.response \in {NoResp, rxc.last.response}

\* C10: in every interleaving of the receive, transmit and processing
\* contexts at most one BufferGuard is outstanding, no guard was made from an
\* empty home slot, and the transmit context never comes to borrow while a
\* guard is outstanding.
C10_SingleBorrower ==
    /\ ~(rxc.guard # "none" /\ prc.guard # "none")
    /\ rxc.guard # "empty"
    /\ prc.guard # "empty"
    /\ comms.state.tag = "BlockSend" => comms.home

\* C16: a request frame that arrives in Normal while an earlier request has
\* not been taken by process is rejected: the pending request stays as it
\* is until process takes it
C16_PendingRequestPreserved ==
    [][(comms.state.tag = "Normal" /\ comms.request # NoReq)
          => comms'.request \in {comms.request, NoReq}]_vars

(***************************************************************************)
(* SpecBlock: SdoClient::block_download against the node, over a bus that  *)
(* may lose block segments                                                 *)
(***************************************************************************)
\* the number of segments the bus may lose in one run
MaxLoss == 2

\* the lengths of the byte strings the client downloads: less than a
\* segment, one segment, two segments, and one byte more than the string
\* can hold
BlockLens == {5, SEG_BYTES, StrSize, StrSize + 1}

\* the client's call has returned
block_finish(b, result) == [b EXCEPT !.pc = "done", !.result = result]

\* no frame is on its way and no context of the node has work left: the
\* response the client waits for will not come
Quiet ==
    /\ wire = NoFrame
    /\ sent = NoFrame
    /\ comms.request = NoReq
    /\ comms.response = NoResp
    /\ comms.state.tag # "BlockReceiveCompleted"
    /\ rxc.pc = "idle"
    /\ prc.pc = "idle"

\* SdoClient::block_download sends InitiateBlockDownload
BcInitiate ==
    /\ ~panicked
    /\ bc.pc = "ready"
    /\ wire = NoFrame
    /\ \E len \in BlockLens :
          /\ bc' = [bc EXCEPT !.pc = "wait_init", !.data = Bytes(len)]
          /\ wire' = request_frame(initiate_block_download(IDX_STR, 0, len))
    /\ UNCHANGED <<node_vars, client_vars, comms, rxc, prc, blk, sent, ext_vars>>

\* the response to InitiateBlockDownload
BcConfirmed ==
    /\ ~panicked
    /\ bc.pc = "wait_init"
    /\ sent # NoFrame
    /\ sent' = NoFrame
    /\ bc' = IF sent.resp.type = "ConfirmBlockDownload"
             THEN IF sent.resp.index # IDX_STR \/ sent.resp.sub # 0
                  THEN block_finish(bc, "MismatchedObjectIndex")
                  ELSE [bc EXCEPT !.pc = "segments", !.crc_enabled = TRUE,
                                  !.blksize = sent.resp.blksize, !.seqnum = 1,
                                  !.last_block_start = 0, !.segment_num = 0]
             ELSE block_finish(bc, response_error(sent.resp))
    /\ UNCHANGED <<node_vars, client_vars, comms, rxc, prc, blk, wire, ext_vars>>

\* the segment the loop of block_download sends next
next_segment(b) ==
    LET segment_start == b.segment_num * SEG_BYTES
        segment_len == Min(Len(b.data) - segment_start, SEG_BYTES)
    IN  [c |-> segment_start + segment_len = Len(b.data), seqnum |-> b.seqnum,
         data |-> SubSeq(b.data, segment_start + 1, segment_start + segment_len)]

\* the client after it has sent a segment: it waits for the confirmation
\* after blksize segments or the last one, else goes on to the next
after_segment(b) ==
    LET seg == next_segment(b)
        noted == IF b.gap /\ ~b.retx.made
                 THEN [b EXCEPT !.retx.made = TRUE, !.retx.seqnum = seg.seqnum]
                 ELSE b
    IN  IF seg.c \/ b.seqnum = b.blksize
        THEN [noted EXCEPT !.pc = "wait_ack"]
        ELSE [noted EXCEPT !.seqnum = b.seqnum + 1,
                           !.segment_num = b.segment_num + 1]

\* the loop of block_download sends a segment
BcSendSegment ==
    /\ ~panicked
    /\ bc.pc = "segments"
    /\ bc.segment_num < div_ceil(Len(bc.data), SEG_BYTES)
    /\ wire = NoFrame
    /\ wire' = LET seg == next_segment(bc)
               IN  segment_frame(seg.c, seg.seqnum, seg.data)
    /\ bc' = after_segment(bc)
    /\ UNCHANGED <<node_vars, client_vars, comms, rxc, prc, blk, sent, ext_vars>>

\* the loop of block_download sends a segment and the bus loses it
BcLoseSegment ==
    /\ ~panicked
    /\ bc.pc = "segments"
    /\ bc.segment_num < div_ceil(Len(bc.data), SEG_BYTES)
    /\ wire = NoFrame
    /\ bc.lost < MaxLoss
    /\ bc' = [after_segment(bc) EXCEPT !.lost = bc.lost + 1]
    /\ UNCHANGED <<node_vars, client_vars, comms, rxc, prc, blk, wire, sent, ext_vars>>

\* the client with the ConfirmBlock that ends a block
confirmed_block(b, r) ==
    IF r.ackseq = b.blksize
    THEN [b EXCEPT !.pc = "segments", !.seqnum = 1,
                   !.segment_num = b.segment_num + 1,
                   !.last_block_start = b.segment_num + 1,
                   !.blksize = r.blksize]
    ELSE IF r.blksize < r.ackseq
    THEN block_finish([b EXCEPT !.seqnum = r.ackseq,
                                !.segment_num = b.last_block_start + r.ackseq],
                      "BlockSizeChangedTooSmall")
    ELSE [b EXCEPT !.pc = "segments", !.seqnum = r.ackseq,
                   !.segment_num = b.last_block_start + r.ackseq,
                   !.blksize = r.blksize,
                   !.gap = TRUE, !.retx.ackseq = r.ackseq]

\* the response after the last segment of a block
BcAck ==
    /\ ~panicked
    /\ bc.pc = "wait_ack"
    /\ sent # NoFrame
    /\ sent' = NoFrame
    /\ bc' = IF sent.resp.type = "ConfirmBlock"
             THEN confirmed_block(bc, sent.resp)
             ELSE block_finish(bc, response_error(sent.resp))
    /\ UNCHANGED <<node_vars, client_vars, comms, rxc, prc, blk, wire, ext_vars>>

\* block_download has sent every segment and sends EndBlockDownload
BcEnd ==
    /\ ~panicked
    /\ bc.pc = "segments"
    /\ bc.segment_num >= div_ceil(Len(bc.data), SEG_BYTES)
    /\ wire = NoFrame
    /\ wire' = request_frame(end_block_download(
                   (SEG_BYTES - (Len(bc.data) % SEG_BYTES)) % SEG_BYTES,
                   IF bc.crc_enabled THEN crc16(bc.data) ELSE 0))
    /\ bc' = [bc EXCEPT !.pc = "wait_end"]
    /\ UNCHANGED <<node_vars, client_vars, comms, rxc, prc, blk, sent, ext_vars>>

\* the response to EndBlockDownload
BcEnded ==
    /\ ~panicked
    /\ bc.pc = "wait_end"
    /\ sent # NoFrame
    /\ sent' = NoFrame
    /\ bc' = IF sent.resp.type = "ConfirmBlockDownloadEnd"
             THEN block_finish(bc, "Ok")
             ELSE block_finish(bc, response_error(sent.resp))
    /\ UNCHANGED <<node_vars, client_vars, comms, rxc, prc, blk, wire, ext_vars>>

\* wait_for_response runs into its timeout
BcTimeout ==
    /\ ~panicked
    /\ bc.pc \in {"wait_init", "wait_ack", "wait_end"}
    /\ Quiet
    /\ bc' = block_finish(bc, "NoResponse")
    /\ UNCHANGED <<node_vars, client_vars, comms, rxc, prc, blk, wire, sent, ext_vars>>

NextBlock ==
    \/ BcInitiate
    \/ BcConfirmed
    \/ BcSendSegment
    \/ BcLoseSegment
    \/ BcAck
    \/ BcEnd
    \/ BcEnded
    \/ BcTimeout
    \/ RxReceive
    \/ RxCritical
    \/ RxDrop
    \/ TxResponse
    \/ ProcessRequest
    \/ ProcessBorrow
    \/ ProcessCompleted

SpecBlock == Init /\ [][NextBlock]_vars

(***************************************************************************)
(* Claims about block downloads (SpecBlock)                                *)
(***************************************************************************)
\* C9: in every block download, lost segments included, the first segment
\* the client sends after an acknowledgement of fewer segments than it sent
\* carries the sequence number ackseq + 1, the bytes the server has taken
\* out of acknowledged blocks are the client's bytes, each at its place,
\* and when the download has succeeded the sub-object holds exactly the
\* bytes the client sent.
C9_BlockRetransmission ==
    /\ bc.retx.made => bc.retx.seqnum = bc.retx.ackseq + 1
    /\ bc.pc # "ready" =>
          \A i \in 1..Min(Len(blk.staged), Len(bc.data)) :
              blk.staged[i] = bc.data[i]
    /\ bc.result = "Ok" =>
          SubSeq(od[<<IDX_STR, 0>>], 1, Len(bc.data)) = bc.data

(***************************************************************************)
(* Event flags: a producer calling set_event_flag while Node::process runs *)
(* the PDO phase on an Operational node with one valid event-driven TPDO   *)
(* (transmission type 254 or 255) that maps the flagged sub                *)
(***************************************************************************)

sdo_vars == <<node_vars, client_vars, comms_vars, bc>>

\* ObjectFlagSync::get_flag: the side producers write to; the call records
\* that a flag was set since the last toggle
get_flag(sync) == [sync |-> [sync EXCEPT !.global = TRUE], side |-> sync.toggle]

\* ObjectFlagSync::toggle: swaps the sides and returns whether any flag was
\* set since the last toggle
toggle(sync) ==
    [sync |-> [toggle |-> 1 - sync.toggle, global |-> FALSE],
     global_trigger |-> sync.global]

\* ObjectFlags::set_flag, after it has chosen the side: sets the bit
set_flag(f, side, sub) == [f EXCEPT ![side] = @ \cup {sub}]

\* read_event_flag: the bit of the inactive side
read_event_flag(f, sync, sub) == sub \in f[1 - sync.toggle]

\* clear_events: zeroes the inactive side
clear_events(f, sync) == [f EXCEPT ![1 - sync.toggle] = {}]

\* the sub the producer of SpecEvents flags: the one the TPDO maps
FlaggedSub == 1

\* set_event_flag reads the global toggle
SetEventFlagBegin ==
    /\ producer.pc = "idle"
    /\ events.count < MaxEvents
    /\ object_flag_sync' = get_flag(object_flag_sync).sync
    /\ producer' = [pc |-> "set",
                    side |-> get_flag(object_flag_sync).side,
                    sub |-> FlaggedSub,
                    id |-> events.count + 1]
    /\ events' = [events EXCEPT !.count = @ + 1]
    /\ UNCHANGED <<sdo_vars, queue_vars, nmt_vars, flags, tick>>

\* set_event_flag sets the bit on the side it has read
SetEventFlagEnd ==
    /\ producer.pc = "set"
    /\ flags' = set_flag(flags, producer.side, producer.sub)
    /\ events' = [events EXCEPT !.carried[producer.side] = @ \cup {producer.id}]
    /\ producer' = ProducerIdle
    /\ UNCHANGED <<sdo_vars, queue_vars, nmt_vars, object_flag_sync, tick>>

\* process swaps the sides
TickToggle ==
    /\ tick.pc = "idle"
    /\ object_flag_sync' = toggle(object_flag_sync).sync
    /\ tick' = [pc |-> "read",
                global_trigger |-> toggle(object_flag_sync).global_trigger]
    /\ UNCHANGED <<sdo_vars, queue_vars, nmt_vars, flags, producer, events>>

\* process evaluates the trigger of the TPDO: global_trigger && read_events()
TickReadEvents ==
    /\ tick.pc = "read"
    /\ events' =
          IF tick.global_trigger /\ read_event_flag(flags, object_flag_sync, FlaggedSub)
          THEN [events EXCEPT !.seen =
                   [i \in 1..MaxEvents |->
                       IF i \in events.carried[1 - object_flag_sync.toggle]
                       THEN Min(2, @[i] + 1) ELSE @[i]]]
          ELSE events
    /\ tick' = [tick EXCEPT !.pc = "clear"]
    /\ UNCHANGED <<sdo_vars, queue_vars, nmt_vars, object_flag_sync, flags, producer>>

\* process clears the events of every TPDO
TickClearEvents ==
    /\ tick.pc = "clear"
    /\ flags' = clear_events(flags, object_flag_sync)
    /\ events' =
          [events EXCEPT
              !.lost = @ \cup { i \in events.carried[1 - object_flag_sync.toggle] :
                                   events.seen[i] = 0 },
              !.carried[1 - object_flag_sync.toggle] = {}]
    /\ tick' = TickIdle
    /\ UNCHANGED <<sdo_vars, queue_vars, nmt_vars, object_flag_sync, producer>>

NextEvents ==
    \/ SetEventFlagBegin
    \/ SetEventFlagEnd
    \/ TickToggle
    \/ TickReadEvents
    \/ TickClearEvents

SpecEvents == Init /\ [][NextEvents]_vars

\* C11: in every interleaving of set_event_flag with process, each event is
\* reported by exactly one tick: no bit is cleared before a tick has read it,
\* and no event is reported by two ticks
C11_EventObservedOnce ==
    \A i \in 1..MaxEvents :
        /\ i \notin events.lost
        /\ events.seen[i] <= 1

(***************************************************************************)
(* SpecQueue: any sequence of push and pop on a PriorityQueue              *)
(***************************************************************************)

\* the priorities pushed: bit 31 is reserved and zero
Prios == { U32(0, low) : low \in {0, 5, 9, PRIO_MASK} }

Items == 1..3

Push(prio, item) ==
    /\ tx_queue' = push(tx_queue, prio, item).buffer
    /\ ret' = [op |-> "push", prio |-> prio, item |-> item,
               ok |-> push(tx_queue, prio, item).ok,
               value |-> IF push(tx_queue, prio, item).ok THEN Nothing
                         ELSE Some(push(tx_queue, prio, item).item),
               before |-> tx_queue]
    /\ UNCHANGED <<sdo_vars, flag_vars, nmt_vars>>

QueuePush ==
    /\ \E prio \in Prios, item \in Items : Push(prio, item)

QueuePop ==
    /\ tx_queue' = pop(tx_queue).buffer
    /\ ret' = [op |-> "pop", prio |-> U32(0, 0), item |-> None, ok |-> TRUE,
               value |-> pop(tx_queue).value,
               before |-> tx_queue]
    /\ UNCHANGED <<sdo_vars, flag_vars, nmt_vars>>

NextQueue ==
    \/ QueuePush
    \/ QueuePop

SpecQueue == Init /\ [][NextQueue]_vars

\* the locations of a buffer that hold an item
Held(buffer) == { i \in 1..Len(buffer) : buffer[i].value # None }

\* C18: pop removes and returns an item whose priority is minimal among the
\* items held, and returns None if and only if no item is held
C18_PopReturnsMinimum ==
    ret.op = "pop" =>
        /\ (ret.value = Nothing) <=> (Held(ret.before) = {})
        /\ ret.value = Nothing => tx_queue = ret.before
        /\ ret.value # Nothing =>
              \E i \in Held(ret.before) :
                  /\ Some(ret.before[i].value) = ret.value
                  /\ \A j \in Held(ret.before) :
                         ~u32_less(ret.before[j].prio, ret.before[i].prio)
                  /\ tx_queue = [ret.before EXCEPT ![i] = Prio_EMPTY]

\* a pop that had to choose: the lowest priority was not in the first
\* location
C18_Witness ==
    /\ ret.op = "pop"
    /\ Held(ret.before) = 1..QueueSize
    /\ ret.value = Some(ret.before[QueueSize].value)
    /\ u32_less(ret.before[QueueSize].prio, ret.before[1].prio)

\* what is popped from a buffer until it is empty
RECURSIVE Drain(_)
Drain(buffer) ==
    IF pop(buffer).value = Nothing THEN <<>>
    ELSE pop(buffer).value \o Drain(pop(buffer).buffer)

\* C19: push on a queue holding N items returns Err with the rejected item
\* and leaves the contents as they were (the same items are popped in the
\* same order); push on a queue holding fewer than N items succeeds
C19_PushFullRejected ==
    ret.op = "push" =>
        /\ ret.ok <=> Cardinality(Held(ret.before)) < QueueSize
        /\ ~ret.ok =>
              /\ ret.value = Some(ret.item)
              /\ tx_queue = ret.before
              /\ Drain(tx_queue) = Drain(ret.before)
        /\ ret.ok =>
              /\ Cardinality(Held(tx_queue)) = Cardinality(Held(ret.before)) + 1
              /\ \E i \in Held(tx_queue) \ Held(ret.before) :
                    /\ tx_queue[i] = [prio |-> ret.prio, value |-> ret.item]
                    /\ tx_queue = [ret.before EXCEPT ![i] = tx_queue[i]]

\* a push was rejected by a full queue, and a push filled the last location
C19_Witness ==
    /\ ret.op = "push"
    /\ ~ret.ok
    /\ Held(tx_queue) = 1..QueueSize

(***************************************************************************)
(* NodeMbox: store_message and next_transmit_message                       *)
(***************************************************************************)

\* CanMessage: the ID, and what the data decodes to: an NMT command (cs,
\* node), an LSS request (lss, node), a heartbeat (state, node), a PDO
\* payload (data) or an SDO frame (sdo)
CanMessage(id) ==
    [id |-> id, cs |-> "", node |-> 0, lss |-> "", state |-> "", data |-> <<>>,
     sdo |-> NoFrame]

\* NmtCommand
nmt_command(cs, n) == [CanMessage(NMT_CMD_ID) EXCEPT !.cs = cs, !.node = n]

\* Heartbeat into CanMessage
heartbeat(n, state) == [CanMessage(HEARTBEAT_BASE + n) EXCEPT !.node = n, !.state = state]

\* LssRequest
lss_request(kind, n) == [CanMessage(LSS_REQ_ID) EXCEPT !.lss = kind, !.node = n]

\* LssResponse::to_can_message
lss_response(kind) == [CanMessage(LSS_RESP_ID) EXCEPT !.lss = kind]

\* a frame with a PDO payload
pdo_message(cob_id, data) == [CanMessage(cob_id) EXCEPT !.data = data]

\* a frame of an SDO transfer
sdo_message(cob_id, frame) == [CanMessage(cob_id) EXCEPT !.sdo = frame]

\* NmtCommandSpecifier
NmtCommandSpecifiers == {"Start", "Stop", "EnterPreOp", "ResetApp", "ResetComm"}

\* the LSS requests that parse
LssRequests == {"ConfigureNodeId", "StoreConfiguration"}

\* Node, NodeMbox, NodeState and the SDO server together
World ==
    [node |-> node, mbox |-> mbox, rpdos |-> rpdos, tpdos |-> tpdos,
     tx_queue |-> tx_queue, comms |-> comms, server |-> server, od |-> od,
     blk |-> blk, object_flag_sync |-> object_flag_sync, flags |-> flags,
     panicked |-> panicked, call |-> Carry(effects)]

\* the first valid RPDO with the COB-ID, 0 when there is none
RECURSIVE matching_rpdo(_, _, _)
matching_rpdo(pdos, k, id) ==
    IF k > Len(pdos) THEN 0
    ELSE IF pdos[k].valid /\ id = pdos[k].cob_id THEN k
    ELSE matching_rpdo(pdos, k + 1, id)

\* SdoComms::handle_req run to its return
sdo_handle_req(c, frame) ==
    IF is_segment(c, frame) THEN receive_segment(c, segment_of(frame))
    ELSE handle_req(c, frame)

keep_first(slot, msg) == IF slot = Nothing THEN Some(msg) ELSE slot

\* AtomicCell::store(Some(msg)) on the NMT slot
nmt_store(slot, msg) == Some(msg)

\* NodeMbox::store_message: the state it leaves, and whether it returns Ok
store_message(w, msg) ==
    IF msg.id = NMT_CMD_ID
    THEN [w |-> [w EXCEPT !.mbox.nmt_mbox = nmt_store(w.mbox.nmt_mbox, msg)],
          ok |-> TRUE]
    ELSE IF msg.id = SYNC_ID
    THEN [w |-> [w EXCEPT !.mbox.sync_flag = TRUE], ok |-> TRUE]
    ELSE IF msg.id = LSS_REQ_ID
    THEN IF msg.lss \in LssRequests
         THEN [w |-> [w EXCEPT !.mbox.lss_receiver = Some(msg)], ok |-> TRUE]
         ELSE [w |-> w, ok |-> FALSE]
    ELSE IF matching_rpdo(w.rpdos, 1, msg.id) # 0
    THEN [w |-> [w EXCEPT !.rpdos[matching_rpdo(w.rpdos, 1, msg.id)].buffered_value =
                              Some(Pad(msg.data, 8))],
          ok |-> TRUE]
    ELSE IF w.mbox.sdo_rx_cob_id = Some(msg.id)
    THEN [w |-> [w EXCEPT !.comms = sdo_handle_req(w.comms, msg.sdo),
                          !.call.quiet_us = 0],
          ok |-> FALSE]
    ELSE [w |-> w, ok |-> FALSE]

last_buffered(pdos) ==
    IF \E k \in 1..Len(pdos) : pdos[k].buffered_value # Nothing
    THEN CHOOSE k \in 1..Len(pdos) :
             /\ pdos[k].buffered_value # Nothing
             /\ \A j \in k + 1..Len(pdos) : pdos[j].buffered_value = Nothing
    ELSE 0

\* NodeMbox::next_transmit_message, the loop over tx_pdos: the first slot
\* with a buffered value, 0 when there is none
first_buffered(pdos) ==
    IF \E k \in 1..Len(pdos) : pdos[k].buffered_value # Nothing
    THEN CHOOSE k \in 1..Len(pdos) :
             /\ pdos[k].buffered_value # Nothing
             /\ \A j \in 1..k - 1 : pdos[j].buffered_value = Nothing
    ELSE 0

\* SdoComms::next_transmit_message: a queued response first, then in
\* BlockSend the next segment out of the buffer
sdo_next_transmit_message(c) ==
    IF c.response # NoResp
    THEN [comms |-> [c EXCEPT !.response = NoResp],
          frame |-> Some(response_frame(c.response))]
    ELSE IF c.state.tag = "BlockSend"
    THEN [comms |-> [c EXCEPT !.state = send_segment_state(c)],
          frame |-> Some(send_segment_frame(c))]
    ELSE [comms |-> c, frame |-> Nothing]

\* NodeMbox::next_transmit_message: the state it leaves and the message it
\* returns
next_transmit_message(w) ==
    LET k == first_buffered(w.tpdos)
        popped == pop(w.tx_queue)
        sdo == sdo_next_transmit_message(w.comms)
    IN  IF k # 0
        THEN [w |-> [w EXCEPT !.tpdos[k].buffered_value = Nothing],
              msg |-> Some(pdo_message(w.tpdos[k].cob_id, w.tpdos[k].buffered_value[1]))]
        ELSE IF popped.value # Nothing
        THEN [w |-> [w EXCEPT !.tx_queue = popped.buffer], msg |-> popped.value]
        ELSE IF sdo.frame # Nothing
        THEN [w |-> [w EXCEPT !.comms = sdo.comms],
              msg |-> IF w.mbox.sdo_tx_cob_id # Nothing
                      THEN Some(sdo_message(w.mbox.sdo_tx_cob_id[1], sdo.frame[1]))
                      ELSE Nothing]
        ELSE [w |-> w, msg |-> Nothing]

\* CanMessageQueue::push for PriorityQueue: the priority is the raw ID
queue_push(buffer, msg) == push(buffer, U32(0, msg.id), msg)

\* NodeMbox::queue_transmit_message(msg).ok(): a full queue drops the
\* message
queue_transmit_message(w, msg) ==
    [w EXCEPT !.tx_queue = queue_push(w.tx_queue, msg).buffer]

(***************************************************************************)
(* Node::process                                                           *)
(***************************************************************************)

\* NodeId::is_configured
is_configured(node_id) == node_id # UNCONFIGURED

\* Node::set_node_id
set_node_id(w, node_id) == [w EXCEPT !.node.reassigned_node_id = Some(node_id)]

\* Node::send_message: transmit_flag is set, the result of the push is
\* dropped
send_message(w, msg) ==
    [queue_transmit_message(w, msg) EXCEPT
        !.call.transmit_flag = TRUE,
        !.call.accepted = @ \/ queue_push(w.tx_queue, msg).ok]

\* Node::enter_operational
enter_operational(w) ==
    invoke([w EXCEPT !.node.nmt_state = "Operational"], "enter_operational")

\* Node::enter_stopped
enter_stopped(w) == invoke([w EXCEPT !.node.nmt_state = "Stopped"], "enter_stopped")

\* Node::enter_preoperational
enter_preoperational(w) ==
    invoke([w EXCEPT !.node.nmt_state = "PreOperational"], "enter_preoperational")

\* Node::reset_app: the PDOs return to their defaults, the callback is
\* invoked, the state is Bootup
reset_app(w) ==
    invoke([w EXCEPT
               !.rpdos = [k \in 1..NumPdos |->
                             init_defaults(w.rpdos[k], RPDO_BASE, RpdoTypes, k,
                                           w.node.node_id)],
               !.tpdos = [k \in 1..NumPdos |->
                             init_defaults(w.tpdos[k], TPDO_BASE, TpdoTypes, k,
                                           w.node.node_id)],
               !.node.nmt_state = "Bootup"],
           "reset_app")

reset_comm_as_app(w) == reset_app(w)

\* Node::reset_comm
reset_comm(w) ==
    invoke([w EXCEPT
               !.rpdos = [k \in 1..NumPdos |->
                             init_defaults(w.rpdos[k], RPDO_BASE, RpdoTypes, k,
                                           w.node.node_id)],
               !.tpdos = [k \in 1..NumPdos |->
                             init_defaults(w.tpdos[k], TPDO_BASE, TpdoTypes, k,
                                           w.node.node_id)],
               !.node.nmt_state = "Bootup"],
           "reset_comms")

\* Node::send_heartbeat: a configured node queues the frame and moves the
\* deadline on by one period
send_heartbeat(w) ==
    IF is_configured(w.node.node_id)
    THEN [send_message(w, heartbeat(w.node.node_id, w.node.nmt_state)) EXCEPT
             !.node.next_heartbeat_time_us = @ + w.node.heartbeat_period_ms * 1000,
             !.call.heartbeats =
                 IF queue_push(w.tx_queue, heartbeat(w.node.node_id, w.node.nmt_state)).ok
                 THEN @ + 1 ELSE @]
    ELSE w

\* NodeMbox::set_sdo_cob_id: the server listens on 0x600 + N and answers on
\* 0x580 + N
set_sdo_cob_id(w, node_id) ==
    [w EXCEPT !.mbox.sdo_rx_cob_id = Some(SDO_RX_BASE + node_id),
              !.mbox.sdo_tx_cob_id = Some(SDO_TX_BASE + node_id)]

\* Node::boot_up
boot_up(w) ==
    IF is_configured(w.node.node_id)
    THEN send_heartbeat(set_sdo_cob_id(w, w.node.node_id))
    ELSE w

handle_nmt_swapped(w, cs) ==
    CASE cs = "Start" -> enter_operational(w)
      [] cs = "Stop" -> enter_preoperational(w)
      [] cs = "EnterPreOp" -> enter_stopped(w)
      [] cs = "ResetApp" -> reset_app(w)
      [] cs = "ResetComm" -> reset_comm(w)

\* Node::handle_nmt_command
handle_nmt_command(w, cs) ==
    CASE cs = "Start" -> enter_operational(w)
      [] cs = "Stop" -> enter_stopped(w)
      [] cs = "EnterPreOp" -> enter_preoperational(w)
      [] cs = "ResetApp" -> reset_app(w)
      [] cs = "ResetComm" -> reset_comm(w)

\* process, its first lines: the time is noted and transmit_flag cleared
process_begin(w, now_us) ==
    [w EXCEPT !.node.last_process_time_us = now_us,
              !.call.elapsed = now_us - w.node.last_process_time_us,
              !.call.transmit_flag = FALSE,
              !.call.resting = /\ w.node.nmt_state # "Bootup"
                                /\ w.node.reassigned_node_id = Nothing]

\* process, the deferred node ID
process_reassign(w) ==
    IF w.node.reassigned_node_id # Nothing
    THEN [w EXCEPT !.node.node_id = w.node.reassigned_node_id[1],
                   !.node.reassigned_node_id = Nothing,
                   !.node.nmt_state = "Bootup"]
    ELSE w

\* process, the step out of Bootup
process_bootup(w) ==
    IF w.node.nmt_state = "Bootup" THEN boot_up(enter_preoperational(w)) ELSE w

auto_start_kept(w) ==
    IF w.node.auto_start /\ is_configured(w.node.node_id)
    THEN enter_operational([w EXCEPT !.call.auto_started = TRUE,
                                     !.call.auto_starts = Min(2, @ + 1)])
    ELSE w

\* process, the automatic start
process_auto_start(w) ==
    IF w.node.auto_start /\ is_configured(w.node.node_id)
    THEN enter_operational([w EXCEPT !.node.auto_start = FALSE,
                                     !.call.auto_started = TRUE,
                                     !.call.auto_starts = Min(2, @ + 1)])
    ELSE w

\* SdoServer::process run to its return
sdo_server_process(srv, odv, c, b) ==
    IF c.state.tag = "BlockReceiveCompleted"
    THEN process_block_completed(srv, odv, c, b)
    ELSE IF c.state.tag = "BlockSendAborted"
    THEN Processed([srv EXCEPT !.state = "Idle"], odv, [c EXCEPT !.state = Normal],
                   NoBlock)
    ELSE IF c.request # NoReq /\ c.state.tag \in {"Normal", "BlockSendCompleted"}
    THEN process_request(srv, odv, [c EXCEPT !.request = NoReq], b, c.request)
    ELSE Processed(srv, odv, c, b)

\* the window of the SDO timeout, in microseconds
SdoTimeout == 1200

\* SdoServer::process has something to act on: a request, a completed
\* block, an aborted block upload
sdo_pending(c) ==
    \/ c.request # NoReq /\ c.state.tag \in {"Normal", "BlockSendCompleted"}
    \/ c.state.tag \in {"BlockReceiveCompleted", "BlockSendAborted"}

\* a transfer is in progress, nothing has arrived for it and the timer has
\* passed the window
sdo_timed_out(srv, c) ==
    srv.state # "Idle" /\ ~sdo_pending(c) /\ c.timer > SdoTimeout

\* SdoServer::process(rx, elapsed, od): the timer is advanced by the
\* elapsed time; a transfer that timed out is given up without a response,
\* the server Idle and the receiver Normal
sdo_server_process_elapsed(srv, odv, c, b, elapsed_us) ==
    LET c1 == increment_timer(c, elapsed_us)
    IN  IF sdo_timed_out(srv, c1)
        THEN Processed([srv EXCEPT !.state = "Idle"], odv, [c1 EXCEPT !.state = Normal],
                       NoBlock)
        ELSE sdo_server_process(srv, odv, c1, b)

\* process reads and clears the store command flag and calls the
\* store_objects callback, registered when storing is supported
store_flag_kept(w) ==
    LET seen == [w EXCEPT !.call.saved = w.call.saves, !.call.saves = 0]
    IN  IF w.node.store_flag /\ w.node.store_objects
        THEN invoke(seen, "store_objects")
        ELSE seen

process_store(w) ==
    LET seen == [w EXCEPT !.call.saved = w.call.saves, !.call.saves = 0]
    IN  IF w.node.store_flag
        THEN LET w1 == [seen EXCEPT !.node.store_flag = FALSE]
             IN  IF w.node.store_objects THEN invoke(w1, "store_objects") ELSE w1
        ELSE seen

never_updated(w) ==
    LET out == sdo_server_process_elapsed(w.server, w.od, w.comms, w.blk, w.call.elapsed)
    IN  [w EXCEPT !.server = out.srv, !.od = out.od, !.comms = out.comms,
                  !.blk = out.blk, !.panicked = out.panic,
                  !.call.quiet_us = IF sdo_pending(w.comms) THEN 0
                                    ELSE @ + w.call.elapsed]

\* process, the SDO server: an updated index sets update_flag
process_sdo(w) ==
    LET out == sdo_server_process_elapsed(w.server, w.od, w.comms, w.blk, w.call.elapsed)
    IN  [w EXCEPT !.server = out.srv, !.od = out.od, !.comms = out.comms,
                  !.blk = out.blk, !.panicked = out.panic,
                  !.call.update_flag = out.updated,
                  !.call.timed_out =
                      IF sdo_timed_out(w.server, increment_timer(w.comms, w.call.elapsed))
                      THEN w.server.state ELSE "",
                  !.call.quiet_us = IF sdo_pending(w.comms) THEN 0
                                    ELSE @ + w.call.elapsed]

addressed_any(cmd_node, node_id) == TRUE

\* process: cmd.node == 0 || cmd.node == node_id.raw()
addressed(cmd_node, node_id) == cmd_node = 0 \/ cmd_node = node_id

\* process, the NMT command: the slot is taken; a command that parses and
\* addresses this node or all nodes is handled if the node is configured
process_nmt(w) ==
    LET slot == w.mbox.nmt_mbox
        w1 == [w EXCEPT !.mbox.nmt_mbox = Nothing]
    IN  IF /\ slot # Nothing
           /\ slot[1].cs \in NmtCommandSpecifiers
           /\ is_configured(w.node.node_id)
           /\ addressed(slot[1].node, w.node.node_id)
        THEN [w |-> handle_nmt_command(w1, slot[1].cs), acted |-> slot]
        ELSE [w |-> w1, acted |-> Nothing]

\* process, the LSS slave: a request is answered, and ConfigureNodeId
\* raises the event that sets the node ID
process_lss(w) ==
    IF w.mbox.lss_receiver = Nothing THEN w
    ELSE LET req == w.mbox.lss_receiver[1]
             w1 == send_message([w EXCEPT !.mbox.lss_receiver = Nothing],
                                lss_response(req.lss))
         IN  IF req.lss = "ConfigureNodeId" THEN set_node_id(w1, req.node) ELSE w1

\* process, the heartbeat: sent when the period is not zero and the
\* deadline has come; a deadline still in the past is moved to now_us
process_heartbeat(w, now_us) ==
    IF w.node.heartbeat_period_ms # 0 /\ now_us >= w.node.next_heartbeat_time_us
    THEN TheOne({ IF w2.node.next_heartbeat_time_us < now_us
                  THEN [w2 EXCEPT !.node.next_heartbeat_time_us = now_us]
                  ELSE w2 :
                  w2 \in { IF w1.call.heartbeats > w.call.heartbeats
                           THEN [w1 EXCEPT
                                    !.call.hb_gap =
                                        IF w.call.hb_last = Nothing THEN Nothing
                                        ELSE Some([gap |-> now_us - w.call.hb_last[1].at,
                                                   before |-> w.call.hb_last[1].elapsed]),
                                    !.call.hb_last =
                                        Some([at |-> now_us, elapsed |-> w.call.elapsed])]
                           ELSE w1 :
                           w1 \in { send_heartbeat(w) } } })
    ELSE w

\* process, its last lines: the transmit-notify callback is invoked when
\* transmit_flag is set
process_end(w) ==
    [w EXCEPT !.call.notified = w.call.transmit_flag,
              !.call.first_configured =
                  is_configured(w.node.node_id) /\ ~w.call.had_configured,
              !.call.had_configured = @ \/ is_configured(w.node.node_id)]

\* the sub-object a PDO slot maps
mapped(k) == <<IDX_REC, k>>

\* Pdo::read_events: an event on the sub the TPDO maps
read_events(f, sync, k) == read_event_flag(f, sync, k)

\* Pdo::sync_update: types 1..=240 count the SYNCs
sync_update(pdo) ==
    IF pdo.transmission_type \in 1..240
    THEN IF pdo.sync_counter + 1 >= pdo.transmission_type
         THEN [pdo |-> [pdo EXCEPT !.sync_counter = 0], emit |-> TRUE]
         ELSE [pdo |-> [pdo EXCEPT !.sync_counter = @ + 1], emit |-> FALSE]
    ELSE [pdo |-> pdo, emit |-> FALSE]

\* Pdo::send_pdo: the mapped bytes are buffered for transmission
send_pdo(pdo, odv, k) == [pdo EXCEPT !.buffered_value = Some(odv[mapped(k)])]

\* process: transmission_type >= 254
is_event_driven(transmission_type) == transmission_type >= EVENT_DRIVEN

\* process, the TPDO loop: the slot is valid and its trigger fires
tpdo_emits(pdo, k, global_trigger, sync, f, fsync) ==
    /\ pdo.valid
    /\ IF is_event_driven(pdo.transmission_type)
       THEN global_trigger /\ read_events(f, fsync, k)
       ELSE sync /\ sync_update(pdo).emit

\* process, one pass of the TPDO loop
tpdo_update(pdo, k, global_trigger, sync, f, fsync, odv) ==
    LET counted == IF pdo.valid /\ ~is_event_driven(pdo.transmission_type) /\ sync
                   THEN sync_update(pdo).pdo
                   ELSE pdo
    IN  IF tpdo_emits(pdo, k, global_trigger, sync, f, fsync)
        THEN send_pdo(counted, odv, k)
        ELSE counted

\* process, the RPDO loop: the slots whose buffered value is stored
rpdo_applied(pdos) ==
    { k \in 1..Len(pdos) : pdos[k].valid /\ pdos[k].buffered_value # Nothing }

\* Pdo::store_pdo_data for the slots applied
store_pdo_data(odv, pdos, applied) ==
    [key \in DOMAIN odv |->
        IF \E k \in applied : mapped(k) = key
        THEN LET k == CHOOSE k \in applied : mapped(k) = key
             IN  SubSeq(pdos[k].buffered_value[1], 1, Len(odv[key]))
        ELSE odv[key]]

\* process, the PDO phase of an Operational node
process_pdos(w) ==
    IF w.node.nmt_state # "Operational"
    THEN [w |-> w, operational |-> FALSE, sync |-> FALSE, emitted |-> {},
          eligible |-> {}, applied |-> {}]
    ELSE LET sync == w.mbox.sync_flag
             t == toggle(w.object_flag_sync)
             tp == [k \in 1..NumPdos |->
                       tpdo_update(w.tpdos[k], k, t.global_trigger, sync, w.flags,
                                   t.sync, w.od)]
             applied == rpdo_applied(w.rpdos)
         IN  [w |-> [w EXCEPT
                        !.mbox.sync_flag = FALSE,
                        !.object_flag_sync = t.sync,
                        !.tpdos = tp,
                        !.flags = clear_events(w.flags, t.sync),
                        !.od = store_pdo_data(w.od, w.rpdos, applied),
                        !.call.transmit_flag =
                            @ \/ \E k \in 1..NumPdos :
                                    tpdo_emits(w.tpdos[k], k, t.global_trigger, sync,
                                               w.flags, t.sync),
                        !.call.buffered =
                            \E k \in 1..NumPdos :
                                tpdo_emits(w.tpdos[k], k, t.global_trigger, sync,
                                           w.flags, t.sync),
                        !.call.update_flag = @ \/ applied # {},
                        !.rpdos = [k \in 1..NumPdos |->
                                      IF k \in applied
                                      THEN [w.rpdos[k] EXCEPT !.buffered_value = Nothing]
                                      ELSE w.rpdos[k]]],
              operational |-> TRUE,
              sync |-> sync,
              emitted |-> { k \in 1..NumPdos :
                              tpdo_emits(w.tpdos[k], k, t.global_trigger, sync,
                                         w.flags, t.sync) },
              eligible |-> { k \in 1..NumPdos :
                               /\ w.tpdos[k].valid
                               /\ w.tpdos[k].transmission_type >= EVENT_DRIVEN },
              applied |-> applied]

\* Node::process(now_us): the state it leaves, and what it did. Each step
\* is evaluated once, on the state the step before has left
process_at(w, now_us) ==
    TheOne({ [w |-> process_end(p.w), nmt_acted |-> n.acted,
              operational |-> p.operational, sync |-> p.sync, emitted |-> p.emitted,
              eligible |-> p.eligible, applied |-> p.applied] :
             <<n, p>> \in
               { <<n, process_pdos(w7)>> :
                   <<n, w7>> \in
                     { <<n, process_heartbeat(w6, now_us)>> :
                         <<n, w6>> \in
                           { <<n, process_lss(n.w)>> :
                               n \in
                                 { process_nmt(process_store(w4)) :
                                     w4 \in
                                       { process_sdo(w3) :
                                           w3 \in
                                             { process_auto_start(w2) :
                                                 w2 \in
                                                   { process_bootup(w1) :
                                                       w1 \in
                                                         { process_reassign(w0) :
                                                             w0 \in
                                                               { process_begin(w, now_us)
                                                               } } } } } } } } } })

\* Node::process called again with the time of the call before
process(w) == process_at(w, w.node.last_process_time_us)

(***************************************************************************)
(* The calls on the node: store_message from the receive context,          *)
(* next_transmit_message from the transmit context, process and            *)
(* set_event_flag from the application                                     *)
(***************************************************************************)

\* the state a call leaves
Apply(w) ==
    /\ node' = w.node
    /\ mbox' = w.mbox
    /\ rpdos' = w.rpdos
    /\ tpdos' = w.tpdos
    /\ tx_queue' = w.tx_queue
    /\ comms' = w.comms
    /\ server' = w.server
    /\ od' = w.od
    /\ blk' = w.blk
    /\ object_flag_sync' = w.object_flag_sync
    /\ flags' = w.flags
    /\ panicked' = w.panicked
    /\ effects' = w.call
    /\ UNCHANGED <<resp, client_vars, rxc, prc, wire, sent, bc, producer, tick,
                   events, ret>>

\* a subsystem of the node takes the frame: the NMT command ID, the SYNC
\* ID, an LSS request that parses, the COB-ID of a valid RPDO, the SDO
\* request COB-ID
Consumed(w, msg) ==
    \/ msg.id = NMT_CMD_ID
    \/ msg.id = SYNC_ID
    \/ msg.id = LSS_REQ_ID /\ msg.lss \in LssRequests
    \/ \E k \in 1..NumPdos : w.rpdos[k].valid /\ w.rpdos[k].cob_id = msg.id
    \/ w.mbox.sdo_rx_cob_id = Some(msg.id)

\* NodeMbox::store_message(msg)
StoreMessage(msg) ==
    /\ ~panicked
    /\ \E out \in { store_message(World, msg) } : Apply(out.w)
    /\ obs' = [obs EXCEPT
                  !.last = [NoLast EXCEPT !.op = "store_message",
                                          !.ok = store_message(World, msg).ok,
                                          !.msg = Some(msg),
                                          !.consumed = Consumed(World, msg)],
                  !.nmt_stored =
                      IF msg.id = NMT_CMD_ID
                      THEN [last |-> Some(msg),
                            earlier |-> @.earlier \/ @.last \notin {Nothing, Some(msg)}]
                      ELSE @]

\* the messages next_transmit_message may return by the order of the three
\* sources: the buffered TPDO of the lowest slot; else the queued messages
\* of the lowest CAN ID; else the next frame of the SDO server
Expected(w) ==
    LET buffered == { k \in 1..NumPdos : w.tpdos[k].buffered_value # Nothing }
        queued == { i \in 1..Len(w.tx_queue) : w.tx_queue[i].prio.b31 = 0 }
        sdo == sdo_next_transmit_message(w.comms).frame
    IN  IF buffered # {}
        THEN { pdo_message(w.tpdos[k].cob_id, w.tpdos[k].buffered_value[1]) :
                 k \in { j \in buffered : \A i \in buffered : j <= i } }
        ELSE IF queued # {}
        THEN { w.tx_queue[i].value :
                 i \in { j \in queued :
                           \A l \in queued : w.tx_queue[j].value.id <= w.tx_queue[l].value.id } }
        ELSE IF sdo # Nothing
        THEN { sdo_message(SDO_TX_BASE + n, sdo[1]) : n \in NodeIds }
        ELSE {}

\* NodeMbox::next_transmit_message()
NextTransmitMessage ==
    /\ ~panicked
    /\ \E out \in { next_transmit_message(World) } :
          /\ Apply(out.w)
          /\ obs' = [obs EXCEPT
                        !.last = [NoLast EXCEPT !.op = "next_transmit_message",
                                                !.msg = out.msg,
                                                !.expected = Expected(World)]]

\* the RPDO slots whose buffered payload a call has taken
Taken(before, after) ==
    { k \in 1..NumPdos :
        before[k].buffered_value # Nothing /\ after[k].buffered_value = Nothing }

\* the state and the record of a process call that returned out
ProcessReturned(out) ==
    /\ Apply(out.w)
    /\ obs' = [last |-> [NoLast EXCEPT !.op = "process",
                                       !.nmt_acted = out.nmt_acted,
                                       !.nmt_stored = obs.nmt_stored,
                                       !.operational = out.operational,
                                       !.sync = out.sync,
                                       !.emitted = out.emitted,
                                       !.eligible = out.eligible,
                                       !.had_event = obs.pending,
                                       !.applied = Taken(rpdos, out.w.rpdos),
                                       !.synced =
                                           { k \in Taken(rpdos, out.w.rpdos) :
                                               rpdos[k].transmission_type \in 0..240 },
                                       !.invalid = { k \in 1..NumPdos : ~rpdos[k].valid },
                                       !.waiting =
                                           { k \in 1..NumPdos :
                                               /\ rpdos[k].valid
                                               /\ rpdos[k].transmission_type >= EVENT_DRIVEN
                                               /\ rpdos[k].buffered_value # Nothing }],
               nmt_stored |-> NoneStored,
               pending |-> IF out.operational THEN {} ELSE obs.pending]

\* Node::process(now_us)
Process ==
    /\ ~panicked
    /\ \E out \in { process(World) } : ProcessReturned(out)

\* set_event_flag(sub) of the flagged object, run to its return
SetEventFlag(sub) ==
    /\ ~panicked
    /\ Apply([World EXCEPT
                 !.object_flag_sync = get_flag(object_flag_sync).sync,
                 !.flags = set_flag(flags, get_flag(object_flag_sync).side, sub)])
    /\ obs' = [obs EXCEPT !.last = [NoLast EXCEPT !.op = "set_event_flag"],
                          !.pending = @ \cup {sub}]

\* Node::set_node_id(node_id)
SetNodeId(node_id) ==
    /\ ~panicked
    /\ Apply(set_node_id(World, node_id))
    /\ obs' = [obs EXCEPT !.last = [NoLast EXCEPT !.op = "set_node_id"]]

(***************************************************************************)
(* SpecNmt: NMT commands, LSS requests and set_node_id calls against a     *)
(* node that is processed and drained in any order                         *)
(***************************************************************************)

\* the frames on the NMT command ID: every command to all nodes, Start to
\* either node ID, and a frame that does not parse
NmtFrames ==
    { nmt_command(cs, 0) : cs \in NmtCommandSpecifiers }
    \cup { nmt_command("Start", n) : n \in NodeIds }
    \cup { nmt_command("Invalid", 0) }

\* the frames on the LSS request ID: a request that parses and one that
\* does not
LssFrames == { lss_request("ConfigureNodeId", 2), lss_request("Invalid", 0) }

InitNmt == \E auto_start \in BOOLEAN : InitWith(1, auto_start)

RxNmt ==
    /\ ~panicked
    /\ \E msg \in NmtFrames : StoreMessage(msg)

RxLss ==
    /\ ~panicked
    /\ \E msg \in LssFrames : StoreMessage(msg)

ApiSetNodeId ==
    /\ ~panicked
    /\ \E node_id \in {UNCONFIGURED} : SetNodeId(node_id)

NextNmt ==
    \/ RxNmt
    \/ RxLss
    \/ ApiSetNodeId
    \/ Process

SpecNmt == InitNmt /\ [][NextNmt]_vars

\* the NMT state a handled command leaves
StateAfter(cs) ==
    CASE cs = "Start" -> "Operational"
      [] cs = "Stop" -> "Stopped"
      [] cs = "EnterPreOp" -> "PreOperational"
      [] cs \in {"ResetApp", "ResetComm"} -> "Bootup"

\* C17: of the NMT commands stored between two process calls, the next
\* process call acts on the last one stored and on no earlier one (it acts
\* if the command parses and addresses the configured node), and the NMT
\* slot is empty afterwards
C17_LastNmtCommandWins ==
    (obs.last.op = "process" /\ obs.last.nmt_stored.last # Nothing) =>
        LET cmd == obs.last.nmt_stored.last[1]
        IN  /\ mbox.nmt_mbox = Nothing
            /\ IF /\ cmd.cs \in NmtCommandSpecifiers
                  /\ is_configured(node.node_id)
                  /\ cmd.node \in {0, node.node_id}
               THEN /\ obs.last.nmt_acted = Some(cmd)
                    /\ node.nmt_state = StateAfter(cmd.cs)
               ELSE obs.last.nmt_acted = Nothing

\* different commands were stored before a process call, which acted on
\* the last
C17_Witness ==
    /\ obs.last.op = "process"
    /\ obs.last.nmt_stored.earlier
    /\ obs.last.nmt_acted = Some(nmt_command("Start", node.node_id))
    /\ node.nmt_state = "Operational"

\* C20: after a process call has returned, nmt_state() is not Bootup
C20_BootupTransient ==
    obs.last.op = "process" => node.nmt_state # "Bootup"

\* the callback that belongs to an NMT command
CallbackOf(cs) ==
    CASE cs = "Start" -> "enter_operational"
      [] cs = "Stop" -> "enter_stopped"
      [] cs = "EnterPreOp" -> "enter_preoperational"
      [] cs = "ResetApp" -> "reset_app"
      [] cs = "ResetComm" -> "reset_comms"

\* a process step that takes a well-formed command out of the NMT slot
TakesCommand ==
    /\ obs'.last.op = "process"
    /\ mbox.nmt_mbox # Nothing
    /\ mbox.nmt_mbox[1].cs \in NmtCommandSpecifiers

\* the step applies the command it takes: the state the command leads to,
\* its callback the last one invoked
AppliesCommand ==
    /\ node'.nmt_state = StateAfter(mbox.nmt_mbox[1].cs)
    /\ effects'.callbacks # <<>>
    /\ effects'.callbacks[Len(effects'.callbacks)] = CallbackOf(mbox.nmt_mbox[1].cs)

\* the step, begun in a resting state, leaves the NMT state as it was and
\* invokes no callback
IgnoresCommand ==
    effects'.resting => (node'.nmt_state = node.nmt_state /\ effects'.callbacks = <<>>)

AppliesFromResting(cs) ==
    /\ TakesCommand
    /\ effects'.resting
    /\ is_configured(node'.node_id)
    /\ mbox.nmt_mbox[1].node \in {0, node'.node_id}
    /\ mbox.nmt_mbox[1].cs = cs

\* C22: from a resting NMT state, applying Start, Stop or EnterPreOp leaves
\* the node in Operational, Stopped or PreOperational respectively and
\* invokes the matching callback exactly once and no other callback
C22_StateChangeCallbacks ==
    [][\A cs \in {"Start", "Stop", "EnterPreOp"} :
          AppliesFromResting(cs) =>
              /\ node'.nmt_state = StateAfter(cs)
              /\ effects'.callbacks = <<CallbackOf(cs)>>]_vars

\* a Stop command to all nodes was applied from a resting state
C22_Witness ==
    /\ obs.last.op = "process"
    /\ obs.last.nmt_stored.last # Nothing
    /\ obs.last.nmt_stored.last[1].cs = "Stop"
    /\ obs.last.nmt_stored.last[1].node = 0
    /\ is_configured(node.node_id)
    /\ effects.resting
    /\ effects.callbacks = <<"enter_stopped">>
    /\ node.nmt_state = "Stopped"

\* C23: with the auto-start object non-zero the automatic transition to
\* Operational happens exactly once in the lifetime of the node: in the
\* first process call in which the node ID is configured, and in no later
\* call, whatever commands and resets came in between
C23_AutoStartOnce ==
    (obs.last.op = "process" /\ effects.auto_object) =>
        /\ effects.auto_started <=> effects.first_configured
        /\ effects.auto_starts = IF effects.had_configured THEN 1 ELSE 0
        /\ effects.auto_started =>
               /\ \E i \in 1..Len(effects.callbacks) :
                      effects.callbacks[i] = "enter_operational"
               /\ obs.last.nmt_stored.last = Nothing => node.nmt_state = "Operational"

\* a process call that left Bootup again after the automatic start had
\* happened: the node stays PreOperational
C23_Witness ==
    /\ obs.last.op = "process"
    /\ effects.auto_object
    /\ ~effects.resting
    /\ is_configured(node.node_id)
    /\ ~effects.first_configured
    /\ effects.auto_starts = 1
    /\ effects.callbacks = <<"enter_preoperational">>
    /\ node.nmt_state = "PreOperational"

\* how often a callback was invoked during the call
Invocations(cb) ==
    Cardinality({ i \in 1..Len(effects'.callbacks) : effects'.callbacks[i] = cb })

\* the process step applies the reset command cs: its callback is invoked
\* once, as the last callback of the call, and the other reset callback is
\* not invoked
ResetApplied(cs, other) ==
    AppliesFromResting(cs) =>
        /\ effects'.callbacks = <<CallbackOf(cs)>>
        /\ Invocations(CallbackOf(other)) = 0
        /\ node'.nmt_state = "Bootup"

\* the process step that follows construction or a reset: the first
\* callback it invokes is enter_preoperational, invoked once unless an
\* EnterPreOp command is applied in the same call
AfterReset ==
    (obs'.last.op = "process" /\ node.nmt_state = "Bootup") =>
        /\ effects'.callbacks # <<>>
        /\ effects'.callbacks[1] = "enter_preoperational"
        /\ Invocations("reset_app") + Invocations("reset_comms") <= 1
        /\ (mbox.nmt_mbox = Nothing \/ mbox.nmt_mbox[1].cs # "EnterPreOp") =>
               Invocations("enter_preoperational") = 1

\* between construction or a reset and that process step no callback is
\* invoked
NoCallbackOutsideProcess ==
    obs'.last.op # "process" => effects'.callbacks = <<>>

\* C24: construction invokes reset_app once and the first process call then
\* invokes enter_preoperational; an applied ResetComm invokes reset_comms
\* once, followed by enter_preoperational once, and no reset_app; an applied
\* ResetApp invokes reset_app once, followed by enter_preoperational, and no
\* reset_comms
C24_ResetCallbacks ==
    /\ (effects.callbacks = <<"reset_app">> /\ node.nmt_state = "Bootup")
    /\ [][/\ ResetApplied("ResetComm", "ResetApp")
          /\ ResetApplied("ResetApp", "ResetComm")
          /\ AfterReset
          /\ NoCallbackOutsideProcess]_vars

\* the process call after an applied ResetComm has invoked
\* enter_preoperational
C24_Witness ==
    /\ obs.last.op = "process"
    /\ ~effects.resting
    /\ effects.had_configured
    /\ ~effects.first_configured
    /\ is_configured(node.node_id)
    /\ node.node_id = 1
    /\ effects.callbacks = <<"enter_preoperational">>
    /\ node.nmt_state = "PreOperational"

\* the communication parameters of every PDO are the defaults for node ID n
PdoDefaultsFor(n) ==
    /\ \A k \in 1..NumPdos :
           rpdos'[k] = init_defaults(rpdos'[k], RPDO_BASE, RpdoTypes, k, n)
    /\ \A k \in 1..NumPdos :
           tpdos'[k] = init_defaults(tpdos'[k], TPDO_BASE, TpdoTypes, k, n)

\* the step has put the bootup heartbeat of node n into the transmit queue
BootupHeartbeatQueued(n) ==
    \E i \in 1..QueueSize :
        /\ tx_queue'[i] # tx_queue[i]
        /\ Prio_value(tx_queue'[i]) = heartbeat(n, "PreOperational")

\* C25: the process call that follows set_node_id(n) resets communication
\* with the new ID: the PDO communication parameters are the defaults for
\* n, the node passes through Bootup to PreOperational, and a bootup
\* heartbeat on 0x700 + n is queued if and only if n is a configured ID
\* (a transmit queue without a free location cannot take it)
C25_NodeIdReset ==
    [][(obs'.last.op = "process" /\ node.reassigned_node_id # Nothing) =>
          LET n == node.reassigned_node_id[1]
          IN  /\ node'.node_id = n
              /\ effects'.callbacks # <<>>
              /\ effects'.callbacks[1] = "enter_preoperational"
              /\ is_configured(n) => PdoDefaultsFor(n)
              /\ BootupHeartbeatQueued(n) => is_configured(n)
              /\ (is_configured(n) /\ \E i \in 1..QueueSize : is_empty(tx_queue[i])) =>
                     BootupHeartbeatQueued(n)]_vars

(***************************************************************************)
(* SpecTpdo: the application raising events from its own context, NMT      *)
(* Start and Stop, SYNC and changes of the TPDO valid bits against a node  *)
(* that is processed and drained in any order                              *)
(***************************************************************************)

\* a write to the COB-ID object of a PDO slot sets or clears its valid bit
configure_valid(pdos, k, valid) == [pdos EXCEPT ![k].valid = valid]

StartStopFrames == { nmt_command("Start", 0), nmt_command("Stop", 0) }

RxStartStop ==
    /\ ~panicked
    /\ \E msg \in StartStopFrames : StoreMessage(msg)

RxSync ==
    /\ ~panicked
    /\ StoreMessage(CanMessage(SYNC_ID))

\* set_event_flag(sub) in the application's context reads the global toggle
RaiseEventBegin ==
    /\ ~panicked
    /\ producer.pc = "idle"
    /\ \E sub \in EventSubs :
          producer' = [ProducerIdle EXCEPT !.pc = "set",
                                           !.side = get_flag(object_flag_sync).side,
                                           !.sub = sub]
    /\ object_flag_sync' = get_flag(object_flag_sync).sync
    /\ obs' = [obs EXCEPT !.last = [NoLast EXCEPT !.op = "get_flag"]]
    /\ UNCHANGED <<sdo_vars, queue_vars, node, mbox, rpdos, tpdos, flags, tick, events,
                   effects>>

\* set_event_flag(sub) sets the bit on the side it has read, and returns
RaiseEventEnd ==
    /\ ~panicked
    /\ producer.pc = "set"
    /\ flags' = set_flag(flags, producer.side, producer.sub)
    /\ producer' = ProducerIdle
    /\ obs' = [obs EXCEPT !.last = [NoLast EXCEPT !.op = "set_event_flag"],
                          !.pending = @ \cup {producer.sub}]
    /\ UNCHANGED <<sdo_vars, queue_vars, node, mbox, rpdos, tpdos, effects, object_flag_sync,
                   tick, events>>

ConfigureTpdo ==
    /\ ~panicked
    /\ \E k \in 1..NumPdos, valid \in BOOLEAN :
          /\ Apply([World EXCEPT !.tpdos = configure_valid(tpdos, k, valid)])
          /\ obs' = [obs EXCEPT !.last = [NoLast EXCEPT !.op = "configure"]]

NextTpdo ==
    \/ RxStartStop
    \/ RaiseEventBegin
    \/ RaiseEventEnd
    \/ ConfigureTpdo
    \/ Process
    \/ NextTransmitMessage

SpecTpdo == Init /\ [][NextTpdo]_vars

\* C12: an Operational process call places a frame in the buffer of a
\* valid TPDO of transmission type 254 or 255 exactly if set_event_flag was
\* called on a sub the TPDO maps since the last such call
C12_EventDrivenTpdo ==
    (obs.last.op = "process" /\ obs.last.operational) =>
        \A k \in obs.last.eligible :
            /\ k \in obs.last.emitted <=> k \in obs.last.had_event
            /\ k \in obs.last.emitted => tpdos[k].buffered_value # Nothing

(***************************************************************************)
(* SpecRpdo: RPDO frames, NMT Start and Stop, SYNC and changes of the RPDO *)
(* valid bits against a node that is processed in any order                *)
(***************************************************************************)

\* the frames on the default COB-IDs of the RPDOs of node 1
RpdoFrames == { pdo_message(RPDO_BASE + PDO_STEP * (k - 1) + 1, PdoData) : k \in 1..NumPdos }

RxRpdo ==
    /\ ~panicked
    /\ \E msg \in RpdoFrames : StoreMessage(msg)

ConfigureRpdo ==
    /\ ~panicked
    /\ \E k \in 1..NumPdos, valid \in BOOLEAN :
          /\ Apply([World EXCEPT !.rpdos = configure_valid(rpdos, k, valid)])
          /\ obs' = [obs EXCEPT !.last = [NoLast EXCEPT !.op = "configure"]]

NextRpdo ==
    \/ RxStartStop
    \/ RxSync
    \/ RxRpdo
    \/ ConfigureRpdo
    \/ Process
    \/ NextTransmitMessage

SpecRpdo == Init /\ [][NextRpdo]_vars

\* C13: a process call copies the buffered payload of an RPDO of
\* transmission type 0..=240 only if it observed a SYNC; the payload of a
\* valid RPDO of type 254 or 255 is copied by the first Operational process
\* call after its reception; the payload of an RPDO that is not valid is
\* not copied
C13_RpdoApply ==
    obs.last.op = "process" =>
        /\ obs.last.synced # {} => obs.last.sync
        /\ obs.last.operational => obs.last.waiting \subseteq obs.last.applied
        /\ obs.last.applied \cap obs.last.invalid = {}
        /\ \A k \in obs.last.applied :
              od[mapped(k)] = SubSeq(Pad(PdoData, 8), 1, Len(od[mapped(k)]))

(***************************************************************************)
(* SpecMbox: one frame of every kind passed to store_message, and process, *)
(* in any order                                                            *)
(***************************************************************************)

\* an ID no subsystem of node 1 listens on
OTHER_ID == 291

\* the SDO requests of SpecMbox, on the request COB-ID of node 1
MboxSdoFrames ==
    { sdo_message(SDO_RX_BASE + 1, request_frame(r)) :
        r \in { initiate_block_upload(IDX_REC, 1), Req("StartBlockUpload") } }

MboxFrames ==
    { nmt_command("Start", 0),
      CanMessage(SYNC_ID),
      lss_request("StoreConfiguration", 0),
      lss_request("Invalid", 0),
      pdo_message(RPDO_BASE + 1, PdoData),
      CanMessage(OTHER_ID) }

RxMbox ==
    /\ ~panicked
    /\ \E msg \in MboxFrames : StoreMessage(msg)

RxSdo ==
    /\ ~panicked
    /\ \E msg \in MboxSdoFrames : StoreMessage(msg)

NextMbox ==
    \/ RxMbox
    \/ RxSdo
    \/ Process

SpecMbox == Init /\ [][NextMbox]_vars

\* C14: store_message returns Ok(()) exactly for the frames a subsystem
\* consumes (NMT command ID, SYNC ID, a well-formed LSS request, the COB-ID
\* of a valid RPDO, the configured SDO RX COB-ID), and Err(msg) for every
\* other frame
C14_ErrIffNotConsumed ==
    obs.last.op = "store_message" => (obs.last.ok <=> obs.last.consumed)

(***************************************************************************)
(* SpecTransmit: the three sources of next_transmit_message filled by      *)
(* events of the application, SYNC, LSS and SDO requests, and drained      *)
(***************************************************************************)

TransmitFrames ==
    { nmt_command("Start", 0), CanMessage(SYNC_ID), lss_request("StoreConfiguration", 0) }

RxTransmit ==
    /\ ~panicked
    /\ \E msg \in TransmitFrames : StoreMessage(msg)

RaiseEvent ==
    /\ ~panicked
    /\ \E sub \in {FlaggedSub} : SetEventFlag(sub)

NextTransmit ==
    \/ RxTransmit
    \/ RxSdo
    \/ RaiseEvent
    \/ Process
    \/ NextTransmitMessage

SpecTransmit == Init /\ [][NextTransmit]_vars

\* C15: next_transmit_message returns the buffered TPDO frame of the lowest
\* slot when a slot holds one, otherwise the queued message of the lowest
\* CAN ID, otherwise the next frame of the SDO server, and None only when
\* the three sources are empty
C15_TransmitOrder ==
    obs.last.op = "next_transmit_message" =>
        IF obs.last.expected = {}
        THEN obs.last.msg = Nothing
        ELSE obs.last.msg # Nothing /\ obs.last.msg[1] \in obs.last.expected

\* the frame of TPDO slot 1 was returned while slot 2 and the queue still
\* hold messages
C15_Witness ==
    /\ obs.last.op = "next_transmit_message"
    /\ obs.last.msg # Nothing
    /\ obs.last.msg[1].id = tpdos[1].cob_id
    /\ tpdos[2].buffered_value # Nothing
    /\ \E i \in 1..QueueSize : ~is_empty(tx_queue[i])

(***************************************************************************)
(* The heartbeat producer: a node whose producer time object reads         *)
(* HeartbeatPeriod, process called with times that do not decrease         *)
(***************************************************************************)

\* the producer time of object 0x1017, in milliseconds
HeartbeatPeriod == 1

\* the last time process is called with, in microseconds
MaxNow == 5000

\* the times between two process calls: a quarter of the period, the
\* period, and a stall of two and a half periods
Ticks == { HeartbeatPeriod * 250, HeartbeatPeriod * 1000, HeartbeatPeriod * 2500 }

\* Node::new over a dictionary whose producer time is HeartbeatPeriod
InitHeartbeat == InitOf([Node_new(1, FALSE) EXCEPT !.heartbeat_period_ms = HeartbeatPeriod])

\* Node::process(now_us) with a later time
ProcessAt ==
    /\ ~panicked
    /\ \E d \in Ticks :
          /\ node.last_process_time_us + d <= MaxNow
          /\ \E out \in { process_at(World, node.last_process_time_us + d) } :
                ProcessReturned(out)

NextHeartbeat ==
    \/ ProcessAt
    \/ NextTransmitMessage

SpecHeartbeat == InitHeartbeat /\ [][NextHeartbeat]_vars

\* C26: with a configured node ID and a producer period P, a process call
\* emits at most one heartbeat; the time between two consecutive periodic
\* heartbeats differs from P * 1000 us by at most one process-call interval
\* (the longer of the intervals of the two calls that emitted them); and
\* the heartbeat that follows the one emitted after a stall longer than the
\* period is not emitted before a full period has elapsed
C26_HeartbeatInterval ==
    (obs.last.op = "process" /\ is_configured(node.node_id)
        /\ node.heartbeat_period_ms # 0) =>
        /\ effects.heartbeats <= 1
        /\ effects.hb_gap # Nothing =>
               LET gap == effects.hb_gap[1].gap
                   period_us == node.heartbeat_period_ms * 1000
                   before == effects.hb_gap[1].before
               IN  /\ gap - period_us <= effects.elapsed
                   /\ period_us - gap <= IF before > effects.elapsed THEN before
                                         ELSE effects.elapsed
                   /\ before > period_us => gap >= period_us

(***************************************************************************)
(* The value process returns: SDO downloads and RPDO frames arrive at an   *)
(* Operational or PreOperational node                                      *)
(***************************************************************************)

\* the SDO requests of SpecUpdate, on the request COB-ID of node 1: an
\* expedited download to a writable and to a read-only sub, and a segmented
\* download with segments of either toggle, last or not
UpdateSdoFrames ==
    { sdo_message(SDO_RX_BASE + 1, request_frame(r)) :
        r \in { expedited_download(IDX_REC, 1, <<1, 2, 1, 2>>),
                expedited_download(IDX_REC, 2, <<1, 2, 1, 2>>),
                initiate_download(IDX_STR, 0, StrSize) }
             \cup { download_segment(t, c, <<1, 2, 1>>) : t, c \in BOOLEAN } }

\* the NMT Start command and a frame for the first RPDO
UpdateFrames == { nmt_command("Start", 0), pdo_message(RPDO_BASE + 1, PdoData) }

RxUpdate ==
    /\ ~panicked
    /\ \E msg \in UpdateFrames : StoreMessage(msg)

RxUpdateSdo ==
    /\ ~panicked
    /\ \E msg \in UpdateSdoFrames : StoreMessage(msg)

NextUpdate ==
    \/ RxUpdate
    \/ RxUpdateSdo
    \/ Process

SpecUpdate == Init /\ [][NextUpdate]_vars

\* the process step takes a download request that completes a download (an
\* expedited download, or a segment with c set) and accepts it
DownloadCompleted ==
    /\ comms.request # NoReq
    /\ comms.state.tag = "Normal"
    /\ \/ /\ comms.request.type = "InitiateDownload"
          /\ comms.request.e
          /\ comms'.response.type = "ConfirmDownload"
       \/ /\ comms.request.type = "DownloadSegment"
          /\ comms.request.c
          /\ comms'.response.type = "ConfirmDownloadSegment"

C28_NotifyIffQueued ==
    obs.last.op = "process" =>
        (effects.notified <=> (effects.accepted \/ effects.buffered))

(***************************************************************************)
(* The SDO timeout: transfers are begun and left alone while process is    *)
(* called with later and later times                                       *)
(***************************************************************************)

\* the requests that begin a transfer of each kind, on the request COB-ID
\* of node 1; the one segment fills the string so that its upload is
\* segmented
TimeoutSdoFrames ==
    { sdo_message(SDO_RX_BASE + 1, request_frame(r)) :
        r \in { initiate_download(IDX_STR, 0, StrSize),
                download_segment(FALSE, TRUE, <<1, 2, 1, 2, 1, 2, 1>>),
                initiate_upload(IDX_STR, 0),
                initiate_block_download(IDX_STR, 0, StrSize),
                initiate_block_upload(IDX_STR, 0) } }

RxTimeoutSdo ==
    /\ ~panicked
    /\ \E msg \in TimeoutSdoFrames : StoreMessage(msg)

NextTimeout ==
    \/ RxTimeoutSdo
    \/ ProcessAt
    \/ NextTransmitMessage

SpecTimeout == Init /\ [][NextTimeout]_vars

u32_from_le_bytes(data) ==
    U32(data[4] \div 128,
        data[1] + 256 * data[2] + 65536 * data[3] + 16777216 * (data[4] % 128))

\* values::SAVE_CMD = 0x73617665
SAVE_CMD == U32(0, 1935767141)

\* the ASCII codes of 's', 'a', 'v', 'e' in this order
Save == <<115, 97, 118, 101>>

\* the successful writes of the save command counted between two process calls
MaxSaves == 2

\* u32::to_le_bytes
u32_to_le_bytes(value) ==
    <<value % 256, (value \div 256) % 256, (value \div 65536) % 256,
      (value \div 16777216) % 256>>

\* StorageCommandObject::read: the result and the bytes put into a buffer of
\* buf_len bytes
StorageCommandObject_read(n, sub, offset, buf_len) ==
    CASE sub = 0 ->
             IF offset # 0 \/ buf_len # 1
             THEN [res |-> Err("DataTypeMismatch"), bytes |-> <<>>]
             ELSE [res |-> Ok(1), bytes |-> <<1>>]
      [] sub = 1 ->
             LET value == IF n.store_supported THEN 1 ELSE 0
                 value_bytes == u32_to_le_bytes(value)
             IN  IF offset < Len(value_bytes)
                 THEN LET read_len == Min(buf_len, Len(value_bytes) - offset)
                      IN  [res |-> Ok(read_len),
                           bytes |-> SubSeq(value_bytes, offset + 1, offset + read_len)]
                 ELSE [res |-> Ok(0), bytes |-> <<>>]
      [] OTHER -> [res |-> Err("NoSuchSubIndex"), bytes |-> <<>>]

\* StorageCommandObject::write: the StorageContext it leaves and its result
StorageCommandObject_write(n, sub, data) ==
    CASE sub = 0 -> [node |-> n, res |-> Err("ReadOnly")]
      [] sub = 1 ->
             IF Len(data) # 4 THEN [node |-> n, res |-> Err("DataTypeMismatch")]
             ELSE IF u32_from_le_bytes(data) = SAVE_CMD
             THEN IF n.store_supported
                  THEN [node |-> [n EXCEPT !.store_flag = TRUE], res |-> Ok(0)]
                  ELSE [node |-> n, res |-> Err("ResourceNotAvailable")]
             ELSE [node |-> n, res |-> Err("IncompatibleParameter")]
      [] OTHER -> [node |-> n, res |-> Err("NoSuchSubIndex")]

\* the values written: "save" in wire order and reversed, the value with
\* bit 31 set, zero, and a value of three bytes
StorageData ==
    { Save, <<101, 118, 97, 115>>, <<115, 97, 118, 229>>, <<0, 0, 0, 0>>, <<115, 97, 118>> }

\* Node::new with and without a store_objects callback registered
InitStorage ==
    \E cb \in BOOLEAN : InitOf(with_store_objects(Node_new(1, FALSE), cb))

\* a write to a sub of object 0x1010
WriteStorage ==
    /\ ~panicked
    /\ \E sub \in 0..2, data \in StorageData :
          \E out \in { StorageCommandObject_write(node, sub, data) } :
             /\ Apply([World EXCEPT
                          !.node = out.node,
                          !.call.saves = IF out.res.ok THEN Min(@ + 1, MaxSaves) ELSE @])
             /\ obs' = [obs EXCEPT
                           !.last = [NoLast EXCEPT !.op = "write", !.ok = out.res.ok,
                                                   !.code = out.res.code, !.sub = sub,
                                                   !.written = data]]

\* the offsets and buffer lengths of the reads
ReadOffsets == {0, 1, 4}

ReadLens == {1, 4}

\* a read of a sub of object 0x1010
ReadStorage ==
    /\ ~panicked
    /\ \E sub \in 0..2, offset \in ReadOffsets, buf_len \in ReadLens :
          \E out \in { StorageCommandObject_read(node, sub, offset, buf_len) } :
             /\ Apply(World)
             /\ obs' = [obs EXCEPT
                           !.last = [NoLast EXCEPT !.op = "read", !.ok = out.res.ok,
                                                   !.code = out.res.code, !.sub = sub,
                                                   !.offset = offset,
                                                   !.buf_len = buf_len,
                                                   !.read = out.bytes]]

NextStorage ==
    \/ WriteStorage
    \/ ReadStorage
    \/ RxStartStop
    \/ Process

SpecStorage == InitStorage /\ [][NextStorage]_vars

\* C30: with a store callback registered, writing the four bytes 's', 'a',
\* 'v', 'e' in this order to object 0x1010 sub 1 succeeds and sets the
\* store-pending flag; writing any other value of four bytes aborts with
\* IncompatibleParameter and leaves the flag as it was
C30_SaveCommand ==
    [][(/\ obs'.last.op = "write"
        /\ obs'.last.sub = 1
        /\ Len(obs'.last.written) = 4
        /\ node.store_supported) =>
          IF obs'.last.written = Save
          THEN obs'.last.ok /\ node'.store_flag
          ELSE /\ ~obs'.last.ok
               /\ obs'.last.code = "IncompatibleParameter"
               /\ node'.store_flag = node.store_flag]_vars

\* a read of the whole of sub 1 tells whether a store_objects callback is
\* registered
ReadsSupport ==
    (/\ obs'.last.op = "read"
     /\ obs'.last.sub = 1
     /\ obs'.last.offset = 0
     /\ obs'.last.buf_len = 4) =>
        /\ obs'.last.ok
        /\ obs'.last.read = IF node.store_objects THEN <<1, 0, 0, 0>> ELSE <<0, 0, 0, 0>>

\* with no callback registered a write of data to sub 1 aborts with
\* ResourceNotAvailable
RefusedWithoutCallback(data) ==
    (/\ obs'.last.op = "write"
     /\ obs'.last.sub = 1
     /\ obs'.last.written = data
     /\ ~node.store_objects) =>
        /\ ~obs'.last.ok
        /\ obs'.last.code = "ResourceNotAvailable"
        /\ ~node'.store_flag

\* the store-pending flag is set only when a callback is registered
FlagNeedsCallback == node'.store_flag => node.store_objects

\* C31: reading object 0x1010 sub 1 returns 1 if and only if a store_objects
\* callback is registered, else 0; with no callback registered a write of the
\* save command 's', 'a', 'v', 'e' aborts with ResourceNotAvailable and
\* leaves the store-pending flag clear; the flag is set only when a callback
\* is registered
C31_StoreSupport ==
    [][ReadsSupport /\ RefusedWithoutCallback(Save) /\ FlagNeedsCallback]_vars

\* the parts of C31 that do not depend on the value of the save command, and
\* the abort for the four bytes StorageCommandObject::write takes as the command
C31_ApartFromCommandValue ==
    [][ReadsSupport /\ RefusedWithoutCallback(<<101, 118, 97, 115>>)
         /\ FlagNeedsCallback]_vars

\* the invocations of the callback cb in the last call
Invoked(cb) ==
    Cardinality({ i \in 1..Len(effects.callbacks) : effects.callbacks[i] = cb })

U8 == 0..255

InvalidNodeIdError == Err("InvalidNodeIdError")

\* the newtype on u8
ConfiguredNodeId(value) == [raw |-> value]

NodeId_Unconfigured == [tag |-> "Unconfigured"]

NodeId_Configured(id) == [tag |-> "Configured", id |-> id]

\* ConfiguredNodeId::new
ConfiguredNodeId_new(value) ==
    IF (value > 0 /\ value < 128) \/ value = 255
    THEN Ok(ConfiguredNodeId(value))
    ELSE InvalidNodeIdError

\* NodeId::new
NodeId_new(value) ==
    IF value = 255
    THEN Ok(NodeId_Unconfigured)
    ELSE LET id == ConfiguredNodeId_new(value)
         IN  IF id.ok THEN Ok(NodeId_Configured(id.val)) ELSE id

\* impl TryFrom<u8> for NodeId
NodeId_try_from(value) ==
    IF value = 255
    THEN Ok(NodeId_Unconfigured)
    ELSE Ok(NodeId_Configured(ConfiguredNodeId(value)))

\* a conversion was called with value and returned res
Converted(op, value, res) ==
    /\ ret' = [op |-> op, value |-> value, res |-> res]
    /\ UNCHANGED <<sdo_vars, flag_vars, nmt_vars, tx_queue>>

CallNodeIdNew ==
    /\ ~panicked
    /\ \E value \in U8 : Converted("NodeId::new", value, NodeId_new(value))

CallNodeIdTryFrom ==
    /\ ~panicked
    /\ \E value \in U8 : Converted("NodeId::try_from", value, NodeId_try_from(value))

CallConfiguredNodeIdNew ==
    /\ ~panicked
    /\ \E value \in U8 :
          Converted("ConfiguredNodeId::new", value, ConfiguredNodeId_new(value))

NextNodeId ==
    \/ CallNodeIdNew
    \/ CallNodeIdTryFrom
    \/ CallConfiguredNodeIdNew

SpecNodeId == Init /\ [][NextNodeId]_vars

\* a conversion to NodeId succeeds for 255, yielding Unconfigured, and for
\* 1..127, yielding that configured ID, and fails for every other value
ValidNodeId(value, res) ==
    /\ res.ok <=> (value = 255 \/ value \in 1..127)
    /\ res.ok /\ value = 255 => res.val = NodeId_Unconfigured
    /\ res.ok /\ value # 255 =>
          res.val = NodeId_Configured(ConfiguredNodeId(value)) /\ value \in 1..127

\* C33: NodeId::new and TryFrom<u8> for NodeId succeed only for 255, yielding
\* Unconfigured, and for a value in 1..=127, yielding that configured ID, and
\* fail for every other value; ConfiguredNodeId::new succeeds for no value
\* outside 1..=127 and 255, and no configured ID is made that holds a value
\* outside 1..=127
C33_ValidNodeIds ==
    /\ ret.op \in {"NodeId::new", "NodeId::try_from"} => ValidNodeId(ret.value, ret.res)
    /\ ret.op = "ConfiguredNodeId::new" =>
          /\ ret.res.ok => (ret.value = 255 \/ ret.value \in 1..127)
          /\ ret.value \in 1..127 => ret.res.ok
          /\ ret.res.ok => ret.res.val.raw \in 1..127

\* NodeId::new alone converts as C33 says
C33_NodeIdNew ==
    ret.op = "NodeId::new" => ValidNodeId(ret.value, ret.res)

(***************************************************************************)
(* SpecSend: the segments of a sub-block of a block upload                 *)
(***************************************************************************)

\* SDO_BUFFER_SIZE of sdo_server/mod.rs: 127 segments of 7 bytes
FULL_BUFFER_SIZE == 889

\* the sizes of the sub-blocks sent: one byte, one segment, one byte more,
\* two segments, one byte more, one byte into the last segment, all 127
SendSizes == {1, 7, 8, 14, 15, 883, FULL_BUFFER_SIZE}

\* the bytes of the buffer: no two of a segment are equal, none is zero
SendBuffer == [i \in 1..FULL_BUFFER_SIZE |-> 1 + (i % 251)]

\* begin_block_upload(size, send_complete), the sub-block in the buffer
BeginBlockUpload ==
    /\ ~panicked
    /\ comms.state.tag \in {"Normal", "BlockSendCompleted"}
    /\ \E size \in SendSizes, send_complete \in BOOLEAN :
          /\ comms' = begin_block_upload([comms EXCEPT !.buffer = SendBuffer],
                                         size, send_complete)
          /\ ret' = [op |-> "begin_block_upload", emitted |-> <<>>,
                     returned |-> Nothing, block_size |-> size,
                     send_complete |-> send_complete, aborted |-> FALSE]
    /\ UNCHANGED <<node_vars, client_vars, rxc, prc, blk, wire, sent, bc, flag_vars,
                   tx_queue, nmt_vars>>

\* store_response while a sub-block is sent
StoreResponse ==
    /\ ~panicked
    /\ ret.op # "none"
    /\ comms.response = NoResp
    /\ comms' = store_response(comms, abort(0, 0, "General"))
    /\ ret' = [ret EXCEPT !.op = "store_response", !.returned = Nothing]
    /\ UNCHANGED <<node_vars, client_vars, rxc, prc, blk, wire, sent, bc, flag_vars,
                   tx_queue, nmt_vars>>

\* SdoComms::next_transmit_message; emitted: the first bytes of the segments
\* returned since begin_block_upload; aborted: handle_req has stored
\* BlockSendAborted since begin_block_upload
SendNext ==
    /\ ~panicked
    /\ ret.op # "none"
    /\ \E out \in { sdo_next_transmit_message(comms) } :
          /\ comms' = out.comms
          /\ sent' = IF out.frame = Nothing THEN NoFrame ELSE out.frame[1]
          /\ ret' = [ret EXCEPT
                        !.op = "next_transmit_message",
                        !.returned = out.frame,
                        !.emitted = IF out.frame # Nothing /\ out.frame[1].resp = NoResp
                                    THEN Append(@, out.frame[1].b0)
                                    ELSE @]
    /\ UNCHANGED <<node_vars, client_vars, rxc, prc, blk, wire, bc, flag_vars,
                   tx_queue, nmt_vars>>

NextSend ==
    \/ BeginBlockUpload
    \/ StoreResponse
    \/ SendNext

SpecSend == Init /\ [][NextSend]_vars

\* the segments of a sub-block of block_size bytes
SegmentsOf(block_size) == (block_size + 6) \div 7

\* a call of next_transmit_message
Sends == ret'.op = "next_transmit_message"

\* a queued response is returned before any segment and leaves the state
ResponseFirst ==
    (Sends /\ comms.response # NoResp) =>
        /\ ret'.returned = Some(response_frame(comms.response))
        /\ comms'.response = NoResp
        /\ comms'.state = comms.state
        /\ ret'.emitted = ret.emitted

\* in BlockSend the call returns the segment after current_segment: its
\* sequence number, its seven bytes out of the buffer (zero past the end of
\* the sub-block), the completion bit on the last segment of a last sub-block
SegmentInOrder ==
    (Sends /\ comms.response = NoResp /\ comms.state.tag = "BlockSend") =>
        LET k == comms.state.current_segment
            size == comms.state.block_size
            last == k + 1 = SegmentsOf(size)
        IN  /\ ret'.returned # Nothing
            /\ sent'.b0 % 128 = k + 1
            /\ sent'.b0 >= 128 <=> (last /\ comms.state.send_complete)
            /\ Len(sent'.data) = 7
            /\ \A i \in 1..7 :
                  sent'.data[i] = IF 7 * k + i <= size THEN comms.buffer[7 * k + i] ELSE 0
            /\ comms'.state = IF last THEN BlockSendCompleted
                               ELSE BlockSend(size, k + 1, comms.state.send_complete)

\* outside BlockSend, and with no response queued, nothing is returned
NothingAfterCompletion ==
    (Sends /\ comms.response = NoResp /\ comms.state.tag # "BlockSend") =>
        /\ ret'.returned = Nothing
        /\ comms' = comms
        /\ ret'.emitted = ret.emitted

\* the segments returned since begin_block_upload are numbered 1, 2, ... in
\* order; in BlockSend current_segment of them were returned, and in
\* BlockSendCompleted all of them, the last one alone with the completion bit
SegmentsCounted ==
    ret'.op # "none" =>
        /\ \A i \in 1..Len(ret'.emitted) :
              /\ ret'.emitted[i] % 128 = i
              /\ ret'.emitted[i] >= 128 <=>
                    (i = SegmentsOf(ret'.block_size) /\ ret'.send_complete)
        /\ comms'.state.tag = "BlockSend" =>
              Len(ret'.emitted) = comms'.state.current_segment
        /\ comms'.state.tag = "BlockSendCompleted" =>
              Len(ret'.emitted) = SegmentsOf(ret'.block_size)

\* C34: in BlockSend for a sub-block of block_size bytes, 1 <= block_size <=
\* 889, successive calls of next_transmit_message return exactly
\* ceil(block_size / 7) segments, numbered from 1 in order, each with its
\* seven bytes of the buffer, the completion bit only on the last one and
\* only when send_complete is set; then the state is BlockSendCompleted and
\* no segment follows; a queued response is returned before any segment
C34_BlockSendSegments ==
    [][ResponseFirst /\ SegmentInOrder /\ NothingAfterCompletion /\ SegmentsCounted]_vars

\* all 127 segments of a last sub-block of 889 bytes were returned
C34_Witness ==
    /\ ret.op = "next_transmit_message"
    /\ comms.state.tag = "BlockSendCompleted"
    /\ ret.block_size = FULL_BUFFER_SIZE
    /\ ret.send_complete
    /\ Len(ret.emitted) = 127
    /\ ret.emitted[127] = 255

(***************************************************************************)
(* SpecOrder: frames queued and taken from the transmit queue              *)
(***************************************************************************)

\* the highest number a queued frame carries
MaxOrder == 4

\* the CAN IDs of the frames queued: the heartbeat and the SDO response of
\* node 1, and the LSS response
OrderIds == {HEARTBEAT_BASE + 1, SDO_TX_BASE + 1, LSS_RESP_ID}

\* the numbers the frames held in the queue carry
HeldOrders(buffer) ==
    { buffer[i].value.data[1] : i \in { j \in 1..Len(buffer) : ~is_empty(buffer[j]) } }

\* a number above those of all frames held
NextOrder(buffer) ==
    IF HeldOrders(buffer) = {} THEN 1
    ELSE 1 + CHOOSE n \in HeldOrders(buffer) : \A o \in HeldOrders(buffer) : o <= n

\* NodeMbox::queue_transmit_message of a frame that carries, as its data,
\* a number higher than those of the frames queued before it and still held:
\* of two frames held the one with the lower number was queued first
QueueTransmit ==
    /\ ~panicked
    /\ \E id \in OrderIds, n \in NextOrder(tx_queue)..MaxOrder :
          /\ Apply(queue_transmit_message(World, [CanMessage(id) EXCEPT !.data = <<n>>]))
          /\ obs' = [obs EXCEPT !.last = [NoLast EXCEPT !.op = "queue_transmit_message"]]

NextOrderSteps ==
    \/ QueueTransmit
    \/ NextTransmitMessage

SpecOrder == Init /\ [][NextOrderSteps]_vars

\* C35: a frame returned by next_transmit_message was queued before every
\* frame of the same CAN ID that is still held in the transmit queue
C35_SameIdInOrder ==
    [][(obs'.last.op = "next_transmit_message" /\ obs'.last.msg # Nothing) =>
          \A i \in 1..Len(tx_queue) :
              (~is_empty(tx_queue[i]) /\ tx_queue[i].value.id = obs'.last.msg[1].id) =>
                  tx_queue[i].value.data[1] >= obs'.last.msg[1].data[1]]_vars

\* among frames of different CAN IDs the one of the lowest ID is returned
C35_LowestIdFirst ==
    [][(obs'.last.op = "next_transmit_message" /\ obs'.last.msg # Nothing) =>
          \A i \in 1..Len(tx_queue) :
              ~is_empty(tx_queue[i]) => tx_queue[i].value.id >= obs'.last.msg[1].id]_vars

\* handle_request answers the expedited InitiateDownload req with
\* ConfirmDownload
ExpeditedConfirmed(req) ==
    /\ req.e
    /\ Handle(req)
    /\ resp'.type = "ConfirmDownload"

\* the requests that continue a segmented transfer are rejected
SegmentsRejected(srv, odv) ==
    \A req \in ReqUploadSegmentReqs \cup DownloadSegmentReqs :
        handle_request(srv, odv, req).resp.type = "Abort"

\* C36: after the server has answered an expedited InitiateDownload with
\* ConfirmDownload it is Idle, whatever state it was in, and rejects a
\* ReqUploadSegment or DownloadSegment that follows with an abort
C36_ExpeditedDownloadEndsTransfer ==
    [][\A req \in InitiateDownloadReqs :
          ExpeditedConfirmed(req) =>
              server'.state = "Idle" /\ SegmentsRejected(server', od')]_vars

\* the same for an expedited download that finds the server Idle
C36_FromIdle ==
    [][\A req \in InitiateDownloadReqs :
          (server.state = "Idle" /\ ExpeditedConfirmed(req)) =>
              server'.state = "Idle" /\ SegmentsRejected(server', od')]_vars

(***************************************************************************)
(* SpecReceive: the segments of a block download as handle_req takes them  *)
(***************************************************************************)

\* the block sizes announced: three segments, and the 127 a sequence number
\* can count
ReceiveBlkSizes == {3, 127}

\* the sequence numbers of the segments received
ReceiveSeqnums == {0, 1, 2, 3, 127}

\* begin_block_download when the block download is initiated
BeginBlockDownload ==
    /\ ~panicked
    /\ comms.state.tag = "Normal"
    /\ \E blksize \in ReceiveBlkSizes : comms' = begin_block_download(comms, blksize)
    /\ UNCHANGED <<node_vars, client_vars, rxc, prc, blk, wire, sent, bc, ext_vars>>

\* handle_req with a block segment in BlockReceive
ReceiveSegment ==
    /\ ~panicked
    /\ comms.state.tag = "BlockReceive"
    /\ \E seqnum \in ReceiveSeqnums, c \in BOOLEAN :
          comms' = sdo_handle_req(comms, segment_frame(c, seqnum, <<1, 2, 3, 4, 5, 6, 7>>))
    /\ UNCHANGED <<node_vars, client_vars, rxc, prc, blk, wire, sent, bc, ext_vars>>

\* the processing context finds BlockReceiveCompleted: a block with a gap is
\* received again from ackseq + 1, the last block ends the reception, any
\* other is followed by the next block
AfterBlock ==
    /\ ~panicked
    /\ comms.state.tag = "BlockReceiveCompleted"
    /\ comms' = IF comms.state.ackseq < comms.state.last_segment
                THEN restart_block_download(comms, comms.state.ackseq)
                ELSE IF comms.state.complete
                THEN [comms EXCEPT !.state = Normal]
                ELSE begin_block_download(comms, comms.blksize)
    /\ UNCHANGED <<node_vars, client_vars, rxc, prc, blk, wire, sent, bc, ext_vars>>

NextReceive ==
    \/ BeginBlockDownload
    \/ ReceiveSegment
    \/ AfterBlock

SpecReceive == Init /\ [][NextReceive]_vars

\* C37: in BlockReceiveCompleted{ackseq, last_segment, complete},
\* ackseq <= last_segment <= 127
C37_AckseqBounded ==
    comms.state.tag = "BlockReceiveCompleted" =>
        /\ comms.state.ackseq <= comms.state.last_segment
        /\ comms.state.last_segment <= 127

\* the parts of C37 that hold: last_segment is in 1..127 and ackseq is at
\* most 127
C37_SequenceNumbersBounded ==
    comms.state.tag = "BlockReceiveCompleted" =>
        /\ comms.state.last_segment \in 1..127
        /\ comms.state.ackseq \in 0..127

(***************************************************************************)
(* SpecAbort: an abort frame received while a sub-block is sent. The load  *)
(* and the store of the state in handle_req are two steps of the receive   *)
(* context; next_transmit_message loads and stores inside one critical     *)
(* section, which no store of an AtomicCell can fall into.                 *)
(***************************************************************************)

\* handle_req with an abort frame: self.state.load() matches BlockSend
RxAbortLoad ==
    /\ ~panicked
    /\ ret.op # "none"
    /\ rxc.pc = "idle"
    /\ comms.state.tag = "BlockSend"
    /\ rxc' = [rxc EXCEPT !.pc = "matched"]
    /\ UNCHANGED <<node_vars, client_vars, comms, prc, blk, wire, sent, bc, ext_vars>>

\* handle_req with an abort frame: self.state.store(BlockSendAborted), and
\* the return
RxAbortStore ==
    /\ ~panicked
    /\ rxc.pc = "matched"
    /\ comms' = abort_block_send(comms)
    /\ rxc' = [rxc EXCEPT !.pc = "idle"]
    /\ ret' = [ret EXCEPT !.op = "handle_req", !.returned = Nothing, !.aborted = TRUE]
    /\ UNCHANGED <<node_vars, client_vars, prc, blk, wire, sent, bc, flag_vars,
                   tx_queue, nmt_vars>>

NextAbort ==
    \/ BeginBlockUpload
    \/ SendNext
    \/ RxAbortLoad
    \/ RxAbortStore

SpecAbort == Init /\ [][NextAbort]_vars

\* C38: once handle_req has taken an abort frame in BlockSend, no call of
\* next_transmit_message returns a block segment of that transfer
C38_NoSegmentAfterAbort ==
    [][(ret.op # "none" /\ ret.aborted /\ ret'.op = "next_transmit_message") =>
          /\ ret'.emitted = ret.emitted
          /\ ret'.returned = Nothing]_vars

\* next_transmit_message called after an abort that was stored while the
\* transmit context had sent the first segments of the sub-block, and after
\* an abort whose store came after the last segment
C38_Witness ==
    /\ ret.op = "next_transmit_message"
    /\ ret.aborted
    /\ comms.state.tag = "BlockSendAborted"
    /\ Len(ret.emitted) \in 1..SegmentsOf(ret.block_size) - 1

(***************************************************************************)
(* SpecLatch: RPDO and SYNC frames arrive only while the node is           *)
(* PreOperational or Stopped                                               *)
(***************************************************************************)

\* store_message with an RPDO frame or a SYNC frame while the node is not
\* Operational
RxNotOperational ==
    /\ ~panicked
    /\ node.nmt_state \in {"PreOperational", "Stopped"}
    /\ \E msg \in RpdoFrames \cup {CanMessage(SYNC_ID)} : StoreMessage(msg)

NextLatch ==
    \/ RxNotOperational
    \/ RxStartStop
    \/ Process
    \/ NextTransmitMessage

SpecLatch == Init /\ [][NextLatch]_vars

\* when every RPDO frame was received while the node was not Operational, no
\* process call writes a payload to the object dictionary
NoLatchedRpdo ==
    /\ od = InitOd
    /\ obs.last.op = "process" => (obs.last.applied = {} /\ ~effects.update_flag)

\* when every SYNC frame was received while the node was not Operational, no
\* process call emits a TPDO
NoLatchedSync == obs.last.op = "process" => obs.last.emitted = {}

\* C39: an RPDO frame or a SYNC frame received while the node is
\* PreOperational or Stopped has no effect on the object dictionary or on
\* TPDO emission, also not after the node has entered Operational
C39_NotOperationalNoEffect == NoLatchedRpdo /\ NoLatchedSync

(***************************************************************************)
(* SpecUnconfigured: a node built with or without a node ID, switched to   *)
(* Unconfigured by set_node_id(255), that is sent SDO requests on the      *)
(* COB-ID of node 1 and is processed and drained in any order              *)
(***************************************************************************)

InitUnconfigured == \E node_id \in {1, UNCONFIGURED} : InitWith(node_id, FALSE)

\* the SDO requests sent to the COB-ID node 1 listens on
UnconfiguredSdoFrames ==
    { sdo_message(SDO_RX_BASE + 1, request_frame(r)) :
        r \in { expedited_download(IDX_REC, 1, <<1, 2, 1, 2>>),
                initiate_block_upload(IDX_REC, 1) } }

RxUnconfiguredSdo ==
    /\ ~panicked
    /\ \E msg \in UnconfiguredSdoFrames : StoreMessage(msg)

SetUnconfigured ==
    /\ ~panicked
    /\ \E node_id \in {UNCONFIGURED} : SetNodeId(node_id)

NextUnconfigured ==
    \/ SetUnconfigured
    \/ RxUnconfiguredSdo
    \/ Process
    \/ NextTransmitMessage

SpecUnconfigured == InitUnconfigured /\ [][NextUnconfigured]_vars

\* store_message, called while the node ID is Unconfigured, hands no request
\* to the SDO server
NoSdoAccepted ==
    [][(node.node_id = UNCONFIGURED /\ obs'.last.op = "store_message")
          => comms' = comms]_vars

\* the COB-IDs of the heartbeat and SDO response frames of the model's nodes
HeartbeatOrSdoIds ==
    { HEARTBEAT_BASE + n : n \in NodeIds \cup {UNCONFIGURED} }
    \cup { SDO_TX_BASE + n : n \in NodeIds \cup {UNCONFIGURED} }

\* next_transmit_message, called while the node ID is Unconfigured, returns
\* neither an SDO response nor a heartbeat
NoSdoOrHeartbeatReturned ==
    [][(/\ node.node_id = UNCONFIGURED
        /\ obs'.last.op = "next_transmit_message"
        /\ obs'.last.msg # Nothing)
          => obs'.last.msg[1].id \notin HeartbeatOrSdoIds]_vars

\* C40: a node whose ID is Unconfigured, also one switched from a configured
\* ID by set_node_id(255), accepts no SDO request into the SDO server and has
\* next_transmit_message return no SDO response and no heartbeat
C40_UnconfiguredSilent == NoSdoAccepted /\ NoSdoOrHeartbeatReturned

\* the part of C40 that holds: a process call that leaves the node ID
\* Unconfigured queues no heartbeat, and a node that never booted with an ID
\* has no SDO COB-ID to listen on
C40_NoHeartbeatQueued ==
    /\ (obs.last.op = "process" /\ node.node_id = UNCONFIGURED)
          => effects.heartbeats = 0
    /\ mbox.sdo_rx_cob_id = Nothing => comms = SdoComms_new

====
